---- MODULE Spec2Model ----
(***************************************************************************)
(* State-machine model of the chat-completion relay of                     *)
(* backend/app/main.py: the pending-request registry (chat_pending_map),   *)
(* the last-completion slot (last_chat_completion_entry), the delayed      *)
(* cleanup tasks and the fingerprint built by _make_chat_key.              *)
(*                                                                         *)
(* Scheduling.  Every handler is an asyncio coroutine on one event loop.   *)
(* A coroutine runs without interruption until it suspends; acquiring the  *)
(* uncontended chat_pending_lock does not suspend, and no coroutine        *)
(* suspends while holding it.  The suspension points of the handlers are   *)
(* the upstream call, the wait on a pending entry's event and the sleep of *)
(* the cleanup task, so one action of the model is the code between two    *)
(* suspension points.                                                      *)
(*                                                                         *)
(* Allow-list.  chat_completions and webhook_post compare the URL of the   *)
(* request with the one of data/settings.json, both normalized, before     *)
(* anything else; the file is read, never written.                         *)
(*                                                                         *)
(* File store (backend/app/file_manager.py).  Files are a map from path to *)
(* bytes, directories a set.  write_file runs its locked section in a      *)
(* worker thread, so the model takes one step per system call of a write   *)
(* (open of the lock file, flock, copy, rotation, mkstemp, write, replace, *)
(* cleanup) and lets the steps of different calls interleave; read_file    *)
(* suspends between its exists() test and its open; delete_file does not   *)
(* suspend.  The file system is POSIX (os.replace swaps the directory      *)
(* entry atomically, an open file can be replaced or unlinked), paths hold *)
(* no symbolic links, and every backup gets a later timestamp than the one *)
(* before it.                                                              *)
(***************************************************************************)
EXTENDS Naturals, Sequences, FiniteSets

\* ------------------------------------------------------------------ bounds
NReq == 3

Reqs == 1..NReq

\* File operations started in one behaviour, and how many of them can be in
\* progress together.
MaxOps == 3

MaxActive == 2

Threads == 1..MaxActive

\* Writes to the neighbour file in the backup scenarios.
SiblingWrites == 31

\* Writes of the same text in the scenarios with failing backups.
FaultWrites == 32

\* Writes to a.txt in the scenarios with the neighbour a.0.txt.
OwnWrites == 31

\* Notifications accepted by /webhook while the flag stays on, and in the
\* scenarios where settings.json changes; POST requests among the accepted
\* or admitted ones; POST handlers waiting for their body at a time.
MaxNotifications == 32
FlagNotifications == 3
MaxPosts == 1
MaxAwaiting == 1

\* The size of the ring of incoming webhook records.
MaxRecords == 30

\* ------------------------------------------------------------ python values
None == [none |-> TRUE]

\* A str is a sequence of one-character strings.
IsSpace(c) == c = " "

RECURSIVE lstrip(_)
lstrip(s) == IF s # <<>> /\ IsSpace(Head(s)) THEN lstrip(Tail(s)) ELSE s

RECURSIVE rstrip(_)
rstrip(s) ==
    IF s # <<>> /\ IsSpace(s[Len(s)]) THEN rstrip(SubSeq(s, 1, Len(s) - 1)) ELSE s

strip(s) == rstrip(lstrip(s))

\* Code-point order of the characters used in payload keys.
Alphabet == <<"m", "n">>

Ord(c) == CHOOSE i \in DOMAIN Alphabet : Alphabet[i] = c

\* A payload is a dict: a sequence of <<key, value>> items in insertion
\* order, with distinct keys.
RECURSIVE SortItems(_)
SortItems(items) ==
    IF items = <<>> THEN <<>>
    ELSE LET i == CHOOSE j \in DOMAIN items :
                    \A l \in DOMAIN items : Ord(items[j][1]) <= Ord(items[l][1])
         IN  <<items[i]>> \o
             SortItems(SubSeq(items, 1, i - 1) \o SubSeq(items, i + 1, Len(items)))

DumpStr(s) == <<"\"">> \o s \o <<"\"">>

RECURSIVE DumpItems(_)
DumpItems(items) ==
    IF items = <<>> THEN <<>>
    ELSE DumpStr(<<items[1][1]>>) \o <<":">> \o DumpStr(<<items[1][2]>>)
         \o (IF Len(items) > 1 THEN <<",">> ELSE <<>>) \o DumpItems(Tail(items))

\* json.dumps(payload, sort_keys=True, separators=(",", ":")): the items are
\* sorted once, then dumped.
_canonicalize_payload(payload) ==
    CHOOSE s \in {<<"{">> \o DumpItems(items) \o <<"}">> : items \in {SortItems(payload)}} :
        TRUE

_make_chat_key(base_url, api_key, payload) ==
    strip(base_url) \o <<"|">> \o strip(api_key) \o <<"|">> \o _canonicalize_payload(payload)

\* dict == dict compares the items, not their order.
DictEq(p, q) == {p[i] : i \in DOMAIN p} = {q[i] : i \in DOMAIN q}

\* ------------------------------------------------------------------- URLs
\* str.lower() on the characters used in URLs.
Lower(c) == IF c = "H" THEN "h" ELSE IF c = "N" THEN "n" ELSE c

lower(s) == [i \in DOMAIN s |-> Lower(s[i])]

\* path.rstrip("/")
RECURSIVE rstrip_slash(_)
rstrip_slash(s) ==
    IF s # <<>> /\ s[Len(s)] = "/" THEN rstrip_slash(SubSeq(s, 1, Len(s) - 1)) ELSE s

\* The least index of s that holds a character of cs, 0 when there is none.
Find(s, cs) ==
    IF \E i \in DOMAIN s : s[i] \in cs
    THEN CHOOSE i \in DOMAIN s : s[i] \in cs /\ \A j \in 1..(i - 1) : s[j] \notin cs
    ELSE 0

\* The letters among the characters used in URLs (a scheme is made of letters,
\* digits, "+", "-" and ".").
SchemeChars == {"h", "H", "n", "N", "u", "k", "p", "q", "x"}

\* s.split(c, 1) when c occurs in s, else (s, "").
SplitAt(s, c) ==
    IF Find(s, {c}) = 0 THEN [head |-> s, tail |-> <<>>]
    ELSE [head |-> SubSeq(s, 1, Find(s, {c}) - 1),
          tail |-> SubSeq(s, Find(s, {c}) + 1, Len(s))]

\* urlsplit: the scheme is what precedes the first ":" when that is not
\* empty and is made of scheme characters.
HasScheme(s) ==
    /\ Find(s, {":"}) > 1
    /\ \A j \in 1..(Find(s, {":"}) - 1) : s[j] \in SchemeChars

SplitScheme(s) ==
    IF HasScheme(s)
    THEN [scheme |-> lower(SubSeq(s, 1, Find(s, {":"}) - 1)),
          rest |-> SubSeq(s, Find(s, {":"}) + 1, Len(s))]
    ELSE [scheme |-> <<>>, rest |-> s]

\* urlsplit: after "//" the netloc runs up to the first of "/", "?", "#".
HasNetloc(s) == Len(s) >= 2 /\ s[1] = "/" /\ s[2] = "/"

NetlocEnd(s) ==
    IF Find(SubSeq(s, 3, Len(s)), {"/", "?", "#"}) = 0 THEN Len(s)
    ELSE Find(SubSeq(s, 3, Len(s)), {"/", "?", "#"}) + 1

SplitNetloc(s) ==
    IF HasNetloc(s)
    THEN [netloc |-> SubSeq(s, 3, NetlocEnd(s)),
          rest |-> SubSeq(s, NetlocEnd(s) + 1, Len(s))]
    ELSE [netloc |-> <<>>, rest |-> s]

\* urllib.parse.urlparse(s), for URLs without ";"
_parse_url(s) ==
    LET url == SplitNetloc(SplitScheme(s).rest).rest
    IN  [scheme |-> SplitScheme(s).scheme,
         netloc |-> SplitNetloc(SplitScheme(s).rest).netloc,
         path |-> SplitAt(SplitAt(url, "#").head, "?").head,
         query |-> SplitAt(SplitAt(url, "#").head, "?").tail,
         fragment |-> SplitAt(url, "#").tail]

\* urllib.parse.urlunparse((scheme, netloc, path, "", "", ""))
urlunparse(scheme, netloc, path) ==
    LET url == IF netloc # <<>>
               THEN <<"/", "/">> \o netloc
                    \o (IF path # <<>> /\ path[1] # "/" THEN <<"/">> \o path ELSE path)
               ELSE path
    IN  IF scheme # <<>> THEN scheme \o <<":">> \o url ELSE url

\* chat_completions._normalize_base_url
_normalize_base_url(u) ==
    LET p == _parse_url(strip(u))
    IN  urlunparse(lower(p.scheme), lower(p.netloc), rstrip_slash(p.path))

\* webhook_post._normalize_url
_normalize_url(u) ==
    LET p == _parse_url(strip(u))
    IN  urlunparse(lower(p.scheme), lower(p.netloc), rstrip_slash(p.path))

\* ------------------------------------------------- file_manager.py: values
\* A directory is a sequence of segment names below the application
\* directory; a file name is the sequence of its dot-separated components
\* ("a.b.txt" is <<"a", "b", "txt">>); a path is a directory and a name.
Path(dir, name) == [dir |-> dir, name |-> name]

\* get_data_directory(), get_backup_directory()
data_dir == <<"data">>

backup_dir == <<"backups">>

\* A request's file_path: its directory segments as typed (".." included)
\* and its last segment.
FilePath(segs, name) == [segs |-> segs, name |-> name]

\* Path.resolve() on a path without symbolic links: ".." drops the segment
\* before it.
RECURSIVE resolve(_, _)
resolve(dir, segs) ==
    IF segs = <<>> THEN dir
    ELSE IF Head(segs) = ".."
    THEN resolve(IF dir = <<>> THEN <<>> ELSE SubSeq(dir, 1, Len(dir) - 1), Tail(segs))
    ELSE resolve(Append(dir, Head(segs)), Tail(segs))

\* full_path.is_relative_to(data_root)
is_relative_to(dir, root) ==
    Len(dir) >= Len(root) /\ SubSeq(dir, 1, Len(root)) = root

\* Path(file_path).suffix: the last component of a name that has a dot.
suffix(name) == IF Len(name) >= 2 THEN name[Len(name)] ELSE ""

\* Path.stem: the name without its suffix.
stem(name) == IF Len(name) >= 2 THEN SubSeq(name, 1, Len(name) - 1) ELSE name

\* str.lower() on the suffixes used.
suffix_lower(x) == IF x = "JSON" THEN "json" ELSE IF x = "EXE" THEN "exe" ELSE x

allowed_extensions == {"txt", "json", "jsonl"}

\* Mutant of _validate_file_path: the containment check is made on the path
\* as typed, before ".." is resolved.
ValidateUnresolved(file_path) ==
    IF suffix_lower(suffix(file_path.name)) \notin allowed_extensions
    THEN None
    ELSE IF ~is_relative_to(data_dir \o file_path.segs, data_dir)
    THEN None
    ELSE Path(resolve(data_dir, file_path.segs), file_path.name)

\* _validate_file_path(file_path): the resolved path, or None where the
\* code raises ValueError.
_validate_file_path(file_path) ==
    IF suffix_lower(suffix(file_path.name)) \notin allowed_extensions
    THEN None
    ELSE IF ~is_relative_to(resolve(data_dir, file_path.segs), data_dir)
    THEN None
    ELSE Path(resolve(data_dir, file_path.segs), file_path.name)

\* A str is a sequence of characters, here "h", "e'" (U+00E9), "CR", "LF"
\* and "U+D800" (a lone surrogate); bytes are a sequence of numbers.
\* str.encode('utf-8', errors='strict') of one character; <<>> stands for
\* UnicodeEncodeError.
EncodeChar(c) ==
    IF c = "h" THEN <<104>>
    ELSE IF c = "e'" THEN <<195, 169>>
    ELSE IF c = "CR" THEN <<13>>
    ELSE IF c = "LF" THEN <<10>>
    ELSE <<>>

CanEncode(content) == \A i \in DOMAIN content : EncodeChar(content[i]) # <<>>

RECURSIVE encode(_)
encode(content) ==
    IF content = <<>> THEN <<>> ELSE EncodeChar(Head(content)) \o encode(Tail(content))

\* The utf-8 decoder of the text file object of read_file.
RECURSIVE decode(_)
decode(data) ==
    IF data = <<>> THEN <<>>
    ELSE IF Head(data) = 195 /\ Len(data) >= 2 /\ data[2] = 169
    THEN <<"e'">> \o decode(SubSeq(data, 3, Len(data)))
    ELSE IF Head(data) = 104 THEN <<"h">> \o decode(Tail(data))
    ELSE IF Head(data) = 13 THEN <<"CR">> \o decode(Tail(data))
    ELSE IF Head(data) = 10 THEN <<"LF">> \o decode(Tail(data))
    ELSE <<"U+FFFD">> \o decode(Tail(data))

\* open(..., 'r') has newline=None: on input "\r\n" and "\r" become "\n".
RECURSIVE universal_newlines(_)
universal_newlines(text) ==
    IF text = <<>> THEN <<>>
    ELSE IF Head(text) = "CR" /\ Len(text) >= 2 /\ text[2] = "LF"
    THEN <<"LF">> \o universal_newlines(SubSeq(text, 3, Len(text)))
    ELSE IF Head(text) = "CR" THEN <<"LF">> \o universal_newlines(Tail(text))
    ELSE <<Head(text)>> \o universal_newlines(Tail(text))

\* What f.read() returns for a file that holds data.
ReadText(data) == universal_newlines(decode(data))

\* <path>.lock
lock_path(full_path) == Path(full_path.dir, Append(full_path.name, "lock"))

\* backup_base_dir = (backup_dir / rel_path.parent).resolve()
backup_base_dir(full_path) ==
    backup_dir \o SubSeq(full_path.dir, Len(data_dir) + 1, Len(full_path.dir))

\* backup_name = f"{stem}.{ts}{suffix}.bak"
backup_path(full_path, ts) ==
    Path(backup_base_dir(full_path),
         stem(full_path.name) \o <<ts, suffix(full_path.name), "bak">>)

\* Mutant of tmp_path: the new bytes are written to the target itself.
tmp_path_in_place(full_path, random) == full_path

\* tempfile.mkstemp(dir=full_path.parent, prefix=full_path.name + '.',
\* suffix='.tmp'): random makes the name one that does not exist.
tmp_path(full_path, random) ==
    Path(full_path.dir, full_path.name \o <<random, "tmp">>)

\* A directory and the directories above it: mkdir(parents=True).
parents(dir) == {SubSeq(dir, 1, n) : n \in 1..Len(dir)}

\* datetime.now(timezone.utc).strftime('%Y-%m-%dT%H-%M-%S.%fZ'): the values
\* successive calls return, in order; each call returns a later one.
TimeStamps ==
    <<"t01", "t02", "t03", "t04", "t05", "t06", "t07", "t08", "t09",
      "t10", "t11", "t12", "t13", "t14", "t15", "t16", "t17", "t18",
      "t19", "t20", "t21", "t22", "t23", "t24", "t25", "t26", "t27",
      "t28", "t29", "t30", "t31", "t32", "t33", "t34", "t35", "t36",
      "t37", "t38", "t39", "t40">>

\* candidates[30:] are deleted: the number of generations kept.
Retention == 30

\* Code-point order of the name components that can differ between two
\* candidates: a timestamp starts with a digit, which sorts before a letter;
\* "0" sorts before every timestamp (the year starts with 2).
ComponentRank(x) ==
    IF x = "0" THEN 0
    ELSE IF \E i \in DOMAIN TimeStamps : TimeStamps[i] = x
    THEN CHOOSE i \in DOMAIN TimeStamps : TimeStamps[i] = x
    ELSE IF x = "a" THEN Len(TimeStamps) + 1
    ELSE IF x = "b" THEN Len(TimeStamps) + 2
    ELSE IF x = "bak" THEN Len(TimeStamps) + 3
    ELSE Len(TimeStamps) + 4

\* n1 < n2 as file names (two names of one directory compare as strings).
RECURSIVE NameLess(_, _)
NameLess(n1, n2) ==
    IF n1 = <<>> THEN n2 # <<>>
    ELSE IF n2 = <<>> THEN FALSE
    ELSE IF Head(n1) = Head(n2) THEN NameLess(Tail(n1), Tail(n2))
    ELSE ComponentRank(Head(n1)) < ComponentRank(Head(n2))

\* name.startswith(f"{stem}.")
startswith(name, st) == Len(name) > Len(st) /\ SubSeq(name, 1, Len(st)) = st

\* name.endswith(f"{suffix}.bak")
endswith(name, sx) ==
    /\ Len(name) > 2
    /\ SubSeq(name, Len(name) - 1, Len(name)) = <<sx, "bak">>

\* ----------------------------------------------------------------- inputs
PayloadMN == << <<"m", "x">>, <<"n", "y">> >>
PayloadNM == << <<"n", "y">>, <<"m", "x">> >>

ChatCompletionRequest(b, a, p) == [base_url |-> b, api_key |-> a, payload |-> p]

RequestInputs ==
    { ChatCompletionRequest(<<"u">>, <<"k">>, PayloadMN),
      ChatCompletionRequest(<<" ", "u">>, <<"k", " ">>, PayloadNM),
      ChatCompletionRequest(<<"u", "|", "k">>, <<"k">>, PayloadMN),
      ChatCompletionRequest(<<"u">>, <<"k", "|", "k">>, PayloadMN) }

KeyOf(rd) == _make_chat_key(rd.base_url, rd.api_key, rd.payload)

\* The request body of /api/webhook/post; str(request_data.url) is what the
\* handler compares and posts to.
WebhookPostRequest(u) == [url |-> u]

WebhookInputs ==
    { WebhookPostRequest(<<"h", ":", "/", "/", "n", "/", "p", "?", "q">>),
      WebhookPostRequest(<<"h", ":", "/", "/", "n", "/", "x">>) }

\* Status codes api_client.post_webhook returns.
WebhookStatuses == {204, 500}

\* data/settings.json: missing, or an object with baseUrl and webhookUrl.
SettingsFiles ==
    { None,
      [baseUrl |-> <<"u", "/">>,
       webhookUrl |-> <<"H", ":", "/", "/", "N", "/", "p", "/">>] }

\* JSON values a settings key can hold.
JSONTrue == [t |-> "bool", b |-> TRUE]
JSONFalse == [t |-> "bool", b |-> FALSE]
JSONNumber(n) == [t |-> "int", n |-> n]
JSONNull == [t |-> "null"]

\* data/settings.json with content json.load rejects, or that is not an
\* object.
Unreadable == [unreadable |-> TRUE]

\* settings.json as an object that has the key enableIncomingWebhook.
SettingsWith(val) ==
    [baseUrl |-> <<"u", "/">>,
     webhookUrl |-> <<"H", ":", "/", "/", "N", "/", "p", "/">>,
     enableIncomingWebhook |-> val]

\* data/settings.json as the incoming webhook endpoints can find it: missing,
\* unreadable, without the key, or with the key set to true, false or 1.
IncomingSettingsFiles ==
    SettingsFiles \cup {Unreadable}
      \cup {SettingsWith(val) : val \in {JSONTrue, JSONFalse, JSONNumber(1)}}

\* The value of a query parameter: absent (None), blank, the digits of n, or
\* a text int() rejects.
Blank == [blank |-> TRUE]
Digits(n) == [int |-> n]
Junk == [junk |-> TRUE]

\* A POST body request.json() rejects.
InvalidJson == [invalid |-> TRUE]

\* The requests to /webhook (GET with the query k=v, POST with the body
\* {"k": "w"} or with a body that is not JSON) and to /api/webhook/incoming.
IncomingGetRequest(query) ==
    [path |-> "/webhook", method |-> "GET", query |-> query]

IncomingPostRequest(body) ==
    [path |-> "/webhook", method |-> "POST", body |-> body]

ListIncomingRequest(limit, sinceId) ==
    [path |-> "/api/webhook/incoming", limit |-> limit, sinceId |-> sinceId]

PostedData == [k |-> "w"]

IncomingRequests ==
    { IncomingGetRequest(<< <<"k", "v">> >>),
      IncomingPostRequest(PostedData),
      IncomingPostRequest(InvalidJson),
      ListIncomingRequest(None, None),
      ListIncomingRequest(Digits(0), Digits(1)),
      ListIncomingRequest(Junk, Blank) }

\* The request bodies of /api/files/read, /api/files/write and
\* /api/files/delete.
FileReadRequest(file_path) == [op |-> "read", file_path |-> file_path, content |-> <<>>]

FileWriteRequest(file_path, content) ==
    [op |-> "write", file_path |-> file_path, content |-> content]

FileDeleteRequest(file_path) == [op |-> "delete", file_path |-> file_path, content |-> <<>>]

\* a.txt, d/../a.txt (the same file), d/a.JSON, ../a.txt (outside the data
\* directory) and a.EXE (extension not allowed).
FilePaths ==
    { FilePath(<<>>, <<"a", "txt">>),
      FilePath(<<"d", "..">>, <<"a", "txt">>),
      FilePath(<<"d">>, <<"a", "JSON">>),
      FilePath(<<"..">>, <<"a", "txt">>),
      FilePath(<<>>, <<"a", "EXE">>) }

\* "h", "e'" CR LF, and a string with a lone surrogate.
Contents == { <<"h">>, <<"e'", "CR", "LF">>, <<"h", "U+D800">> }

\* Every path is read, deleted and written; the two names of a.txt are
\* written with different text, d/a.JSON also with the lone surrogate.
FileRequests ==
    {FileReadRequest(f) : f \in FilePaths}
    \cup {FileDeleteRequest(f) : f \in FilePaths}
    \cup {FileWriteRequest(f, <<"h">>) : f \in FilePaths}
    \cup {FileWriteRequest(f, c) : f \in {FilePath(<<>>, <<"a", "txt">>)},
                                  c \in Contents \ {<<"h", "U+D800">>}}
    \cup {FileWriteRequest(f, c) : f \in {FilePath(<<"d">>, <<"a", "JSON">>)},
                                  c \in Contents \ {<<"e'", "CR", "LF">>}}

\* The writes of the scenarios with a neighbour whose backups sort after
\* the target's own: a.txt and a.0.txt.
NeighbourRequests ==
    { FileWriteRequest(FilePath(<<>>, <<"a", "txt">>), <<"h">>),
      FileWriteRequest(FilePath(<<>>, <<"a", "0", "txt">>), <<"h">>) }

\* The writes of the backup scenarios: a.txt and its neighbour a.b.txt.
BackupRequests ==
    { FileWriteRequest(FilePath(<<>>, <<"a", "txt">>), <<"h">>),
      FileWriteRequest(FilePath(<<>>, <<"a", "txt">>), <<"e'", "CR", "LF">>),
      FileWriteRequest(FilePath(<<>>, <<"a", "b", "txt">>), <<"h">>) }

\* ------------------------------------------------------- response snapshots
NoJson == <<>>
NoText == "None"

\* The dict api_client.chat_completion returns; x numbers the upstream
\* exchange that produced it, in completion order (history, not read by
\* the handlers).
Snapshot(status_code, json, text) ==
    [status_code |-> status_code, json |-> json, text |-> text, x |-> 0]

TimeoutDetail == "Upstream request still in progress (timeout)"

UpstreamSnapshots ==
    { Snapshot(200, <<"choices", "A">>, NoText),
      Snapshot(200, NoJson, "B"),
      Snapshot(504, <<"detail", TimeoutDetail>>, NoText) }

\* What the client receives: a status code and a body (JSON or raw text).
HttpResponse(status_code, json, text) ==
    [status_code |-> status_code, json |-> json, text |-> text]

\* JSONResponse(content=result["json"], ...) when json is not None,
\* otherwise Response(content=result.get("text", ""), ...).
Relay(result) ==
    IF result.json # NoJson
    THEN HttpResponse(result.status_code, result.json, NoText)
    ELSE HttpResponse(result.status_code, NoJson, result.text)

\* raise HTTPException(status_code, detail): rendered by the framework's
\* default handler as the JSON object {"detail": detail}.
HTTPException(status_code, detail) ==
    HttpResponse(status_code, <<"detail", detail>>, NoText)

\* Response(status_code=204)
NoContent == HttpResponse(204, NoJson, "")

\* {} read through .get("status_code", 200), .get("json"), .get("text", "")
EmptyResult == [status_code |-> 200, json |-> NoJson, text |-> "", x |-> 0]

TransportErrorResult ==
    [status_code |-> 502, json |-> <<"error", "Upstream request failed: E">>,
     text |-> NoText, x |-> 0]

InternalErrorResult ==
    [status_code |-> 500, json |-> <<"error", "AI API request failed: E">>,
     text |-> NoText, x |-> 0]

\* ------------------------------------------------------------------ state
VARIABLES
    chat_pending_map,            \* key -> [event, result, created_at]
    events,                      \* the asyncio.Event objects: events[e] is is_set()
    last_chat_completion_entry,  \* None or [req, res]
    cleanup_tasks,               \* sleeping _cleanup_pending_later(key, created_at),
                                 \* one task per completion x that created it
    pc,                          \* where each request's handler is suspended
    request_data,                \* the request body of each arrived request
    event,                       \* the event a suspended handler waits on (0: none)
    response,                    \* what each finished handler returned
    role,                        \* history: which branch the request took
    outcome,                     \* history: how the request's handler ended
    holder_of,                   \* history: the entry a leader registered or reused
    concurrent,                  \* history: same-key requests in flight at arrival
    seen,                        \* history: slot and pending entry a lookup saw
    stored,                      \* history: <<event, result>> written by completions
    xcount,                      \* history: number of finished upstream exchanges
    last_ok,                     \* history: x of the latest exchange with status < 400
    chat_pending_lock,           \* app.state.chat_pending_lock: None when free
    mutations,                   \* history: <<object, under the lock?>> of the writes
                                 \* made to the pending map and the last-completion slot
    settings,                    \* data/settings.json: None, or its baseUrl and webhookUrl
    incoming_webhook_counter,    \* app.state.incoming_webhook_counter
    incoming_webhook_records,    \* app.state.incoming_webhook_records
    arrived,                     \* the request the server dispatches next (None: none)
    awaiting,                    \* the POST each /webhook handler awaits the body of
    answered,                    \* history: the last response of each endpoint
    accepted,                    \* history: every record made, in the order made
    webhook_request,             \* the request body of each arrived webhook post
    fs,                          \* the files on disk: path -> bytes
    dirs,                        \* the directories on disk
    flock,                       \* the lock file each write_file call holds locked
    clock,                       \* how many timestamps datetime.now() has returned
    fpc,                         \* where each file operation is
    call,                        \* the request body of each file operation
    reply,                       \* what each finished file operation answered
    calls,                       \* history: how often each request was made
    touched,                     \* history: the files and directories the operation changed
    src,                         \* history: path -> the str whose bytes it holds
    asked,                       \* history: <<path, bytes>> of the writes begun
    last_locked,                 \* history: path -> the last write to lock it
    made                         \* history: the backups created so far

vars == <<chat_pending_map, events, last_chat_completion_entry, cleanup_tasks, pc,
          request_data, event, response, role, outcome, holder_of, concurrent, seen,
          stored, xcount, last_ok, chat_pending_lock, mutations, settings,
          webhook_request,
          incoming_webhook_counter, incoming_webhook_records, arrived, awaiting,
          answered, accepted,
          fs, dirs, flock, clock, fpc, call, reply, calls, touched, src, asked,
          last_locked, made>>

\* The file store and the history kept about it.
store == <<fs, dirs, flock, clock, fpc, call, reply, calls, touched, src, asked,
           last_locked, made>>

\* The state of the incoming webhook endpoints.
inbox == <<incoming_webhook_counter, incoming_webhook_records, arrived, awaiting,
           answered, accepted>>

\* What the handlers of the chat-completion endpoints never write.
aside == <<settings, webhook_request, store, inbox>>

\* The state of the relay endpoints.
relay == <<chat_pending_map, events, last_chat_completion_entry, cleanup_tasks, pc,
           request_data, event, response, role, outcome, holder_of, concurrent, seen,
           stored, xcount, last_ok, chat_pending_lock, mutations, settings,
           webhook_request, inbox>>

hist == <<holder_of, concurrent, seen, stored, xcount, last_ok>>

\* FileManager(): the data and backup directories exist and are empty.
StoreInit ==
    /\ fs = <<>>
    /\ dirs = {data_dir, backup_dir}
    /\ flock = [t \in Threads |-> None]
    /\ clock = 0
    /\ fpc = [t \in Threads |-> "idle"]
    /\ call = [t \in Threads |-> None]
    /\ reply = [t \in Threads |-> None]
    /\ calls = [req \in FileRequests \cup BackupRequests \cup NeighbourRequests |-> 0]
    /\ touched = [t \in Threads |-> {}]
    /\ src = <<>>
    /\ asked = {}
    /\ last_locked = <<>>
    /\ made = {}

\* app.state after startup: no pending entry, no stored completion.
RelayInit ==
    /\ chat_pending_map = <<>>
    /\ events = <<>>
    /\ last_chat_completion_entry = None
    /\ cleanup_tasks = {}
    /\ pc = [r \in Reqs |-> "new"]
    /\ request_data = [r \in Reqs |-> None]
    /\ event = [r \in Reqs |-> 0]
    /\ response = [r \in Reqs |-> None]
    /\ role = [r \in Reqs |-> "none"]
    /\ outcome = [r \in Reqs |-> "none"]
    /\ holder_of = [r \in Reqs |-> 0]
    /\ concurrent = [r \in Reqs |-> {}]
    /\ seen = [r \in Reqs |-> None]
    /\ stored = {}
    /\ xcount = 0
    /\ last_ok = 0
    /\ chat_pending_lock = None
    /\ mutations = {}
    /\ webhook_request = [r \in Reqs |-> None]
    /\ incoming_webhook_counter = 0
    /\ incoming_webhook_records = <<>>
    /\ arrived = None
    /\ awaiting = [h \in 1..MaxAwaiting |-> None]
    /\ answered = [path \in {"/webhook", "/api/webhook/incoming"} |-> None]
    /\ accepted = <<>>

Init ==
    /\ RelayInit
    /\ settings \in SettingsFiles
    /\ StoreInit

\* Requests are numbered in arrival order.
Arrives(r) == pc[r] = "new" /\ (IF r = 1 THEN TRUE ELSE pc[r - 1] # "new")

\* Mutant of PendingEvent: the test of is_set() is inverted.
PendingEventInverted(key) ==
    IF key \in DOMAIN chat_pending_map /\ events[chat_pending_map[key].event]
    THEN chat_pending_map[key].event
    ELSE 0

\* holder = chat_pending_map.get(key); the event when it exists and is not
\* set, else None (0).
PendingEvent(key) ==
    IF key \in DOMAIN chat_pending_map /\ ~events[chat_pending_map[key].event]
    THEN chat_pending_map[key].event
    ELSE 0

\* Requests of the relay endpoint with this key whose handler has not returned.
InFlight(key) ==
    {s \in Reqs : /\ pc[s] \in {"wait", "upstream"}
                  /\ KeyOf(request_data[s]) = key}

\* _now_iso() at registration: one fresh timestamp per new entry, which also
\* names the entry's Event object.
NewEntry == [event |-> Len(events) + 1, result |-> None, created_at |-> Len(events) + 1]

\* if key not in chat_pending_map: chat_pending_map[key] = {...}
Registered(key) ==
    IF key \notin DOMAIN chat_pending_map
    THEN [k \in DOMAIN chat_pending_map \cup {key} |->
             IF k = key THEN NewEntry ELSE chat_pending_map[k]]
    ELSE chat_pending_map

\* ------------------------------------------------------ chat_pending_lock
\* Mutant of Section: the handler suspends without leaving the block.
SectionKept == chat_pending_lock = None /\ chat_pending_lock' = [locked |-> TRUE]

\* async with app.state.chat_pending_lock: entered with the lock free and
\* left, with the lock released, before the handler's next await.
Section == chat_pending_lock = None /\ chat_pending_lock' = None

\* Mutant of Locked: the writes are made outside the block.
LockedNot(objects) == {<<o, FALSE>> : o \in objects}

\* Writes made inside an 'async with app.state.chat_pending_lock' block.
Locked(objects) == {<<o, TRUE>> : o \in objects}

\* Writes made outside every such block.
Unlocked(objects) == {<<o, FALSE>> : o \in objects}

\* What a completion writes in its block: the entry, when it finds one.
Completed(key) == IF key \in DOMAIN chat_pending_map THEN {"chat_pending_map"} ELSE {}

\* What the handler writes after a result: the slot, when status_code < 400.
Cached(result) ==
    IF result.status_code < 400 THEN {"last_chat_completion_entry"} ELSE {}

\* ------------------------------------------------- /api/ai/chat/completions
\* _load_settings_base_url(): the baseUrl of settings.json when the file
\* exists and holds a non-blank string, else None.
_load_settings_base_url ==
    IF settings = None THEN None
    ELSE IF settings.baseUrl # None /\ strip(settings.baseUrl) # <<>>
    THEN settings.baseUrl
    ELSE None

\* Mutant of BaseUrlMismatch: only scheme and host are compared.
BaseUrlMismatchHostOnly(rd) ==
    /\ _load_settings_base_url # None
    /\ _parse_url(strip(rd.base_url)).netloc
          # _parse_url(strip(_load_settings_base_url)).netloc

\* expected and _normalize_base_url(provided) != _normalize_base_url(expected)
BaseUrlMismatch(rd) ==
    /\ _load_settings_base_url # None
    /\ _normalize_base_url(rd.base_url) # _normalize_base_url(_load_settings_base_url)

\* The base URL differs from the configured one: 403, before the key is made.
ChatReject(r, rd) ==
    /\ Arrives(r)
    /\ BaseUrlMismatch(rd)
    /\ response' = [response EXCEPT ![r] =
          HTTPException(403, "Security error: Base URL mismatch")]
    /\ pc' = [pc EXCEPT ![r] = "done"]
    /\ request_data' = [request_data EXCEPT ![r] = rd]
    /\ role' = [role EXCEPT ![r] = "refused"]
    /\ outcome' = [outcome EXCEPT ![r] = "forbidden"]
    /\ UNCHANGED <<chat_pending_map, events, last_chat_completion_entry, cleanup_tasks,
                   event, hist>>
    /\ UNCHANGED aside
    /\ UNCHANGED <<chat_pending_lock, mutations>>

\* The request finds an entry whose event is not set and suspends on it.
ChatFollow(r, rd) ==
    /\ Arrives(r)
    /\ ~BaseUrlMismatch(rd)
    /\ PendingEvent(KeyOf(rd)) # 0
    /\ pc' = [pc EXCEPT ![r] = "wait"]
    /\ request_data' = [request_data EXCEPT ![r] = rd]
    /\ event' = [event EXCEPT ![r] = PendingEvent(KeyOf(rd))]
    /\ role' = [role EXCEPT ![r] = "follower"]
    /\ concurrent' = [concurrent EXCEPT ![r] = InFlight(KeyOf(rd))]
    /\ UNCHANGED outcome
    /\ UNCHANGED <<chat_pending_map, events, last_chat_completion_entry, cleanup_tasks,
                   response, holder_of, seen, stored, xcount, last_ok>>
    /\ UNCHANGED aside
    /\ Section
    /\ UNCHANGED mutations

\* No entry, or one whose event is already set: the request registers
\* (creating the entry only when the key is absent) and calls upstream.
ChatLead(r, rd) ==
    /\ Arrives(r)
    /\ ~BaseUrlMismatch(rd)
    /\ PendingEvent(KeyOf(rd)) = 0
    /\ chat_pending_map' = Registered(KeyOf(rd))
    /\ events' = IF KeyOf(rd) \in DOMAIN chat_pending_map THEN events
                 ELSE Append(events, FALSE)
    /\ pc' = [pc EXCEPT ![r] = "upstream"]
    /\ request_data' = [request_data EXCEPT ![r] = rd]
    /\ role' = [role EXCEPT ![r] = "leader"]
    /\ holder_of' = [holder_of EXCEPT ![r] = Registered(KeyOf(rd))[KeyOf(rd)].event]
    /\ concurrent' = [concurrent EXCEPT ![r] = InFlight(KeyOf(rd))]
    /\ UNCHANGED outcome
    /\ UNCHANGED <<last_chat_completion_entry, cleanup_tasks, event, response,
                   seen, stored, xcount, last_ok>>
    /\ UNCHANGED aside
    /\ Section
    /\ mutations' = mutations \cup
          Locked(IF KeyOf(rd) \in DOMAIN chat_pending_map THEN {} ELSE {"chat_pending_map"})

\* Mutant of CacheStore: the status check is missing.
CacheStoreAnyStatus(rd, result) == [req |-> rd, res |-> result]

\* The slot after a completion: overwritten only when status_code < 400.
CacheStore(rd, result) ==
    IF result.status_code < 400
    THEN [req |-> rd, res |-> result]
    ELSE last_chat_completion_entry

\* Mutant of Complete: the completion schedules no cleanup task.
CompleteUnscheduled(key, result) ==
    IF key \in DOMAIN chat_pending_map
    THEN /\ chat_pending_map' = [chat_pending_map EXCEPT ![key].result = result]
         /\ events' = [events EXCEPT ![chat_pending_map[key].event] = TRUE]
         /\ cleanup_tasks' = cleanup_tasks
         /\ stored' = stored \cup {<<chat_pending_map[key].event, result>>}
    ELSE UNCHANGED <<chat_pending_map, events, cleanup_tasks, stored>>

\* holder = chat_pending_map.get(key); if holder is not None: store the
\* result, set the event, create the cleanup task.
Complete(key, result) ==
    IF key \in DOMAIN chat_pending_map
    THEN /\ chat_pending_map' = [chat_pending_map EXCEPT ![key].result = result]
         /\ events' = [events EXCEPT ![chat_pending_map[key].event] = TRUE]
         /\ cleanup_tasks' = cleanup_tasks \cup
                {[key |-> key, created_at |-> chat_pending_map[key].created_at,
                  x |-> result.x]}
         /\ stored' = stored \cup {<<chat_pending_map[key].event, result>>}
    ELSE UNCHANGED <<chat_pending_map, events, cleanup_tasks, stored>>

\* api_client.chat_completion returned a snapshot (any status).
UpstreamReturn(r, snap) ==
    /\ pc[r] = "upstream"
    /\ LET upstream == [snap EXCEPT !.x = xcount + 1] IN
        /\ Complete(KeyOf(request_data[r]), upstream)
        /\ last_chat_completion_entry' = CacheStore(request_data[r], upstream)
        /\ response' = [response EXCEPT ![r] = Relay(upstream)]
        /\ last_ok' = IF upstream.status_code < 400 THEN xcount + 1 ELSE last_ok
    /\ xcount' = xcount + 1
    /\ pc' = [pc EXCEPT ![r] = "done"]
    /\ outcome' = [outcome EXCEPT ![r] = "relayed"]
    /\ UNCHANGED <<request_data, event, role, holder_of, concurrent, seen>>
    /\ UNCHANGED aside
    /\ Section
    /\ mutations' = mutations \cup Locked(Completed(KeyOf(request_data[r])))
                              \cup Unlocked(Cached(snap))

\* api_client.chat_completion raised httpx.HTTPError.
UpstreamHTTPError(r) ==
    /\ pc[r] = "upstream"
    /\ Complete(KeyOf(request_data[r]), [TransportErrorResult EXCEPT !.x = xcount + 1])
    /\ response' = [response EXCEPT ![r] = HTTPException(502, "Upstream request failed: E")]
    /\ xcount' = xcount + 1
    /\ pc' = [pc EXCEPT ![r] = "done"]
    /\ outcome' = [outcome EXCEPT ![r] = "http_error"]
    /\ UNCHANGED <<last_chat_completion_entry, request_data, event, role, holder_of,
                   concurrent, seen, last_ok>>
    /\ UNCHANGED aside
    /\ Section
    /\ mutations' = mutations \cup Locked(Completed(KeyOf(request_data[r])))

\* api_client.chat_completion raised another Exception.
UpstreamException(r) ==
    /\ pc[r] = "upstream"
    /\ Complete(KeyOf(request_data[r]), [InternalErrorResult EXCEPT !.x = xcount + 1])
    /\ response' = [response EXCEPT ![r] = HTTPException(500, "AI API request failed: E")]
    /\ xcount' = xcount + 1
    /\ pc' = [pc EXCEPT ![r] = "done"]
    /\ outcome' = [outcome EXCEPT ![r] = "exception"]
    /\ UNCHANGED <<last_chat_completion_entry, request_data, event, role, holder_of,
                   concurrent, seen, last_ok>>
    /\ UNCHANGED aside
    /\ Section
    /\ mutations' = mutations \cup Locked(Completed(KeyOf(request_data[r])))

\* The leader's task is cancelled while it awaits the upstream call:
\* asyncio.CancelledError is a BaseException, which neither except clause
\* catches, and the finally clause does nothing; no response is sent.
UpstreamCancelled(r) ==
    /\ pc[r] = "upstream"
    /\ pc' = [pc EXCEPT ![r] = "done"]
    /\ outcome' = [outcome EXCEPT ![r] = "cancelled"]
    /\ UNCHANGED <<chat_pending_map, events, last_chat_completion_entry, cleanup_tasks,
                   request_data, event, response, role, hist>>
    /\ UNCHANGED aside
    /\ UNCHANGED <<chat_pending_lock, mutations>>

\* result = (chat_pending_map.get(key) or {}).get("result")
PendingResult(key) ==
    IF key \in DOMAIN chat_pending_map THEN chat_pending_map[key].result ELSE None

\* The follower's response once its wait returned.
FollowerResponse(result) ==
    IF result = None
    THEN HTTPException(500, "No result available after waiting")
    ELSE Relay(result)

\* The event the follower waits on was set: it reads the entry's result,
\* stores the slot and answers.
FollowerResume(r) ==
    /\ pc[r] = "wait"
    /\ events[event[r]]
    /\ LET result == PendingResult(KeyOf(request_data[r])) IN
        /\ last_chat_completion_entry' =
              IF result = None THEN last_chat_completion_entry
              ELSE CacheStore(request_data[r], result)
        /\ response' = [response EXCEPT ![r] = FollowerResponse(result)]
    /\ outcome' = [outcome EXCEPT ![r] =
          IF PendingResult(KeyOf(request_data[r])) = None THEN "no_result" ELSE "shared"]
    /\ pc' = [pc EXCEPT ![r] = "done"]
    /\ UNCHANGED <<chat_pending_map, events, cleanup_tasks, request_data, event, role,
                   hist>>
    /\ UNCHANGED aside
    /\ mutations' = mutations \cup
          Unlocked(IF PendingResult(KeyOf(request_data[r])) = None THEN {}
                   ELSE Cached(PendingResult(KeyOf(request_data[r]))))
    /\ UNCHANGED chat_pending_lock

\* Mutant of WaitTimeout: the timeout is reported with the transport-error status.
WaitTimeoutAs502 == HTTPException(502, TimeoutDetail)

\* The status and detail of the follower's asyncio.TimeoutError answer.
WaitTimeout == HTTPException(504, TimeoutDetail)

\* Mutant of FollowerTimeout: the timed-out follower also drops the entry.
FollowerTimeoutDropsEntry(r) ==
    /\ pc[r] = "wait"
    /\ ~events[event[r]]
    /\ response' = [response EXCEPT ![r] = HTTPException(504, TimeoutDetail)]
    /\ pc' = [pc EXCEPT ![r] = "done"]
    /\ outcome' = [outcome EXCEPT ![r] = "wait_timeout"]
    /\ chat_pending_map' =
          [k \in DOMAIN chat_pending_map \ {KeyOf(request_data[r])} |-> chat_pending_map[k]]
    /\ UNCHANGED <<events, last_chat_completion_entry, cleanup_tasks,
                   request_data, event, role, hist>>
    /\ UNCHANGED aside
    /\ UNCHANGED <<chat_pending_lock, mutations>>

\* asyncio.wait_for(event.wait(), timeout=wait_timeout) timed out.
FollowerTimeout(r) ==
    /\ pc[r] = "wait"
    /\ ~events[event[r]]
    /\ response' = [response EXCEPT ![r] = WaitTimeout]
    /\ pc' = [pc EXCEPT ![r] = "done"]
    /\ outcome' = [outcome EXCEPT ![r] = "wait_timeout"]
    /\ UNCHANGED <<chat_pending_map, events, last_chat_completion_entry, cleanup_tasks,
                   request_data, event, role, hist>>
    /\ UNCHANGED aside
    /\ UNCHANGED <<chat_pending_lock, mutations>>

\* --------------------------------------------------- _cleanup_pending_later
\* Mutant of SleepOver: the cleanup does not sleep.
SleepOverAtOnce == TRUE

\* await asyncio.sleep(delay), delay = 5.0: the task is created by the
\* completion that sets the event, after event.set() has queued the waiters
\* of that event on the loop, so the waiters woken by a completion run before
\* the sleep started by that completion (or a later one) is over.
SleepOver == \A r \in Reqs : pc[r] \in {"wait", "last_wait"} => ~events[event[r]]

\* Mutant of Removable: the creation timestamps are not compared.
RemovableByKey(t) ==
    /\ t.key \in DOMAIN chat_pending_map
    /\ events[chat_pending_map[t.key].event]

\* holder and holder.get("created_at") == created_at and event.is_set()
Removable(t) ==
    /\ t.key \in DOMAIN chat_pending_map
    /\ chat_pending_map[t.key].created_at = t.created_at
    /\ events[chat_pending_map[t.key].event]

Cleanup(t) ==
    /\ t \in cleanup_tasks
    /\ SleepOver
    /\ cleanup_tasks' = cleanup_tasks \ {t}
    /\ chat_pending_map' =
          IF Removable(t)
          THEN [k \in DOMAIN chat_pending_map \ {t.key} |-> chat_pending_map[k]]
          ELSE chat_pending_map
    /\ UNCHANGED outcome
    /\ UNCHANGED <<events, last_chat_completion_entry, pc, request_data, event,
                   response, role, hist>>
    /\ UNCHANGED aside
    /\ Section
    /\ mutations' = mutations \cup
          Locked(IF Removable(t) THEN {"chat_pending_map"} ELSE {})

\* -------------------------------------------- /api/ai/chat/completions/last
\* Mutant of SameRequest: the stored request is compared by fingerprint.
SameFingerprint(entry, rd) == entry # None /\ KeyOf(entry.req) = KeyOf(rd)

\* req.get("base_url") == base_url and req.get("api_key") == api_key and
\* req.get("payload") == payload, on a stored entry.
SameRequest(entry, rd) ==
    /\ entry # None
    /\ entry.req.base_url = rd.base_url
    /\ entry.req.api_key = rd.api_key
    /\ DictEq(entry.req.payload, rd.payload)

Seen(rd) == [entry |-> last_chat_completion_entry, pending |-> PendingEvent(KeyOf(rd))]

\* The stored request equals the incoming one: answer with the stored result.
LastHit(r, rd) ==
    /\ Arrives(r)
    /\ SameRequest(last_chat_completion_entry, rd)
    /\ response' = [response EXCEPT ![r] = Relay(last_chat_completion_entry.res)]
    /\ pc' = [pc EXCEPT ![r] = "done"]
    /\ request_data' = [request_data EXCEPT ![r] = rd]
    /\ role' = [role EXCEPT ![r] = "last"]
    /\ seen' = [seen EXCEPT ![r] = Seen(rd)]
    /\ outcome' = [outcome EXCEPT ![r] = "hit"]
    /\ UNCHANGED <<chat_pending_map, events, last_chat_completion_entry, cleanup_tasks,
                   event, holder_of, concurrent, stored, xcount, last_ok>>
    /\ UNCHANGED aside
    /\ UNCHANGED <<chat_pending_lock, mutations>>

\* No stored match, but an entry for the key whose event is not set: wait.
LastWait(r, rd) ==
    /\ Arrives(r)
    /\ ~SameRequest(last_chat_completion_entry, rd)
    /\ PendingEvent(KeyOf(rd)) # 0
    /\ pc' = [pc EXCEPT ![r] = "last_wait"]
    /\ event' = [event EXCEPT ![r] = PendingEvent(KeyOf(rd))]
    /\ request_data' = [request_data EXCEPT ![r] = rd]
    /\ role' = [role EXCEPT ![r] = "last"]
    /\ seen' = [seen EXCEPT ![r] = Seen(rd)]
    /\ UNCHANGED outcome
    /\ UNCHANGED <<chat_pending_map, events, last_chat_completion_entry, cleanup_tasks,
                   response, holder_of, concurrent, stored, xcount, last_ok>>
    /\ UNCHANGED aside
    /\ Section
    /\ UNCHANGED mutations

\* No stored match and nothing to wait for: 204.
LastMiss(r, rd) ==
    /\ Arrives(r)
    /\ ~SameRequest(last_chat_completion_entry, rd)
    /\ PendingEvent(KeyOf(rd)) = 0
    /\ response' = [response EXCEPT ![r] = NoContent]
    /\ pc' = [pc EXCEPT ![r] = "done"]
    /\ request_data' = [request_data EXCEPT ![r] = rd]
    /\ role' = [role EXCEPT ![r] = "last"]
    /\ seen' = [seen EXCEPT ![r] = Seen(rd)]
    /\ outcome' = [outcome EXCEPT ![r] = "miss"]
    /\ UNCHANGED <<chat_pending_map, events, last_chat_completion_entry, cleanup_tasks,
                   event, holder_of, concurrent, stored, xcount, last_ok>>
    /\ UNCHANGED aside
    /\ Section
    /\ UNCHANGED mutations

\* upstream = (chat_pending_map.get(key) or {}).get("result") or {}
WaitedResult(key) ==
    IF PendingResult(key) = None THEN EmptyResult ELSE PendingResult(key)

\* Mutant of LastResume: the lookup stores the result it waited for in the
\* slot, as a follower of the relay endpoint does.
LastResumeCaching(r) ==
    /\ pc[r] = "last_wait"
    /\ events[event[r]]
    /\ response' = [response EXCEPT ![r] = Relay(WaitedResult(KeyOf(request_data[r])))]
    /\ last_chat_completion_entry' =
          CacheStore(request_data[r], WaitedResult(KeyOf(request_data[r])))
    /\ pc' = [pc EXCEPT ![r] = "done"]
    /\ outcome' = [outcome EXCEPT ![r] = "waited"]
    /\ UNCHANGED <<chat_pending_map, events, cleanup_tasks,
                   request_data, event, role, hist>>
    /\ UNCHANGED aside
    /\ UNCHANGED <<chat_pending_lock, mutations>>

\* The awaited event was set: answer with the entry's result.
LastResume(r) ==
    /\ pc[r] = "last_wait"
    /\ events[event[r]]
    /\ response' = [response EXCEPT ![r] = Relay(WaitedResult(KeyOf(request_data[r])))]
    /\ pc' = [pc EXCEPT ![r] = "done"]
    /\ outcome' = [outcome EXCEPT ![r] = "waited"]
    /\ UNCHANGED <<chat_pending_map, events, last_chat_completion_entry, cleanup_tasks,
                   request_data, event, role, hist>>
    /\ UNCHANGED aside
    /\ UNCHANGED <<chat_pending_lock, mutations>>

\* The wait timed out: 204.
LastTimeout(r) ==
    /\ pc[r] = "last_wait"
    /\ ~events[event[r]]
    /\ response' = [response EXCEPT ![r] = NoContent]
    /\ pc' = [pc EXCEPT ![r] = "done"]
    /\ outcome' = [outcome EXCEPT ![r] = "last_timeout"]
    /\ UNCHANGED <<chat_pending_map, events, last_chat_completion_entry, cleanup_tasks,
                   request_data, event, role, hist>>
    /\ UNCHANGED aside
    /\ UNCHANGED <<chat_pending_lock, mutations>>

\* ------------------------------------------------------- /api/webhook/post
\* _load_settings_webhook_url()
_load_settings_webhook_url ==
    IF settings = None THEN None
    ELSE IF settings.webhookUrl # None /\ strip(settings.webhookUrl) # <<>>
    THEN settings.webhookUrl
    ELSE None

\* expected and _normalize_url(provided) != _normalize_url(expected)
WebhookUrlMismatch(req) ==
    /\ _load_settings_webhook_url # None
    /\ _normalize_url(req.url) # _normalize_url(_load_settings_webhook_url)

\* The URL differs from the configured one: 403, before anything is posted.
WebhookReject(r, req) ==
    /\ Arrives(r)
    /\ WebhookUrlMismatch(req)
    /\ response' = [response EXCEPT ![r] =
          HTTPException(403, "Security error: Webhook URL mismatch")]
    /\ pc' = [pc EXCEPT ![r] = "done"]
    /\ webhook_request' = [webhook_request EXCEPT ![r] = req]
    /\ role' = [role EXCEPT ![r] = "refused"]
    /\ outcome' = [outcome EXCEPT ![r] = "forbidden"]
    /\ UNCHANGED <<chat_pending_map, events, last_chat_completion_entry, cleanup_tasks,
                   request_data, event, hist, settings, store, inbox>>
    /\ UNCHANGED <<chat_pending_lock, mutations>>

\* The handler calls api_client.post_webhook and suspends on it.
WebhookPost(r, req) ==
    /\ Arrives(r)
    /\ ~WebhookUrlMismatch(req)
    /\ pc' = [pc EXCEPT ![r] = "webhook"]
    /\ webhook_request' = [webhook_request EXCEPT ![r] = req]
    /\ role' = [role EXCEPT ![r] = "webhook"]
    /\ UNCHANGED <<chat_pending_map, events, last_chat_completion_entry, cleanup_tasks,
                   request_data, event, response, outcome, hist, settings,
                   store, inbox>>
    /\ UNCHANGED <<chat_pending_lock, mutations>>

\* post_webhook returned: only the status code goes back to the client.
WebhookReturn(r, status_code) ==
    /\ pc[r] = "webhook"
    /\ response' = [response EXCEPT ![r] = HttpResponse(status_code, NoJson, "")]
    /\ pc' = [pc EXCEPT ![r] = "done"]
    /\ outcome' = [outcome EXCEPT ![r] = "relayed"]
    /\ UNCHANGED <<chat_pending_map, events, last_chat_completion_entry, cleanup_tasks,
                   request_data, event, role, hist, aside>>
    /\ UNCHANGED <<chat_pending_lock, mutations>>

\* post_webhook raised httpx.HTTPError.
WebhookHTTPError(r) ==
    /\ pc[r] = "webhook"
    /\ response' = [response EXCEPT ![r] = HTTPException(502, "Upstream request failed: E")]
    /\ pc' = [pc EXCEPT ![r] = "done"]
    /\ outcome' = [outcome EXCEPT ![r] = "http_error"]
    /\ UNCHANGED <<chat_pending_map, events, last_chat_completion_entry, cleanup_tasks,
                   request_data, event, role, hist, aside>>
    /\ UNCHANGED <<chat_pending_lock, mutations>>

\* post_webhook raised another Exception.
WebhookException(r) ==
    /\ pc[r] = "webhook"
    /\ response' = [response EXCEPT ![r] = HTTPException(500, "Webhook request failed: E")]
    /\ pc' = [pc EXCEPT ![r] = "done"]
    /\ outcome' = [outcome EXCEPT ![r] = "exception"]
    /\ UNCHANGED <<chat_pending_map, events, last_chat_completion_entry, cleanup_tasks,
                   request_data, event, role, hist, aside>>
    /\ UNCHANGED <<chat_pending_lock, mutations>>

\* ---------------------------------------------------------- file_manager.py
Put(f, k, v) == [x \in DOMAIN f \cup {k} |-> IF x = k THEN v ELSE f[x]]

Drop(f, ks) == [x \in DOMAIN f \ ks |-> f[x]]

\* os.path.exists(path), Path.exists()
exists(path) == path \in DOMAIN fs

\* A JSON string, as opposed to null (None).
Str(s) == [str |-> s]

\* Mutant of ReadResponse: a missing file is answered as an empty string.
ReadResponseBlank(req, content) ==
    [status_code |-> 200, success |-> TRUE,
     content |-> IF content = None THEN Str(<<>>) ELSE content,
     file_path |-> req.file_path]

\* The response bodies of the three endpoints.
ReadResponse(req, content) ==
    [status_code |-> 200, success |-> TRUE, content |-> content,
     file_path |-> req.file_path]

WriteResponse(req) ==
    [status_code |-> 200, success |-> TRUE, file_path |-> req.file_path,
     content_length |-> Len(req.content)]

DeleteResponse(req) ==
    [status_code |-> 200, success |-> TRUE, file_path |-> req.file_path]

\* str(e) of the ValueError _validate_file_path raises.
validation_error(file_path) ==
    IF suffix_lower(suffix(file_path.name)) \notin allowed_extensions
    THEN "File extension is not allowed"
    ELSE "File path must be within data directory"

\* The operation takes the lowest slot that is not in use.
Free(t) ==
    /\ fpc[t] \in {"idle", "done"}
    /\ \A u \in Threads : u < t => fpc[u] \notin {"idle", "done"}

Begin(t, req) ==
    /\ Free(t)
    /\ call' = [call EXCEPT ![t] = req]
    /\ calls' = [calls EXCEPT ![req] = @ + 1]

full_path(t) == _validate_file_path(call[t].file_path)

data(t) == encode(call[t].content)

\* The part of the temporary file's name that mkstemp chooses.
RandomNames == <<"r1", "r2", "r3", "r4">>

tmp(t) == tmp_path(full_path(t), RandomNames[t])

\* The files a step created, rewrote or removed and the directories it
\* created (a directory is listed as a path with an empty name).
Changed ==
    {p \in DOMAIN fs \cup DOMAIN fs' :
        p \notin DOMAIN fs \/ p \notin DOMAIN fs' \/ fs[p] # fs'[p]}
    \cup {Path(d, <<>>) : d \in dirs' \ dirs}

Touches(t) == touched' = [touched EXCEPT ![t] = @ \cup Changed]

\* write_file up to the hand-over to the worker thread: validation, mkdir of
\* the parent, the encoding check, mkdir of the backup directory.
WriteBegin(t, req) ==
    /\ req.op = "write"
    /\ Begin(t, req)
    /\ LET full == _validate_file_path(req.file_path) IN
        IF full = None
        THEN /\ fpc' = [fpc EXCEPT ![t] = "done"]
             /\ reply' = [reply EXCEPT ![t] =
                   HTTPException(400, validation_error(req.file_path))]
             /\ UNCHANGED <<dirs, asked>>
        ELSE IF ~CanEncode(req.content)
        THEN /\ dirs' = dirs \cup parents(full.dir)
             /\ fpc' = [fpc EXCEPT ![t] = "done"]
             /\ reply' = [reply EXCEPT ![t] =
                   HTTPException(400, "Content is not valid UTF-8")]
             /\ UNCHANGED asked
        ELSE /\ dirs' = dirs \cup parents(full.dir) \cup parents(backup_base_dir(full))
             /\ fpc' = [fpc EXCEPT ![t] = "queued"]
             /\ asked' = asked \cup {<<full, encode(req.content)>>}
             /\ UNCHANGED reply
    /\ UNCHANGED <<fs, flock, clock, src, last_locked, made, relay>>
    /\ touched' = [touched EXCEPT ![t] = Changed]

\* Mutant of LockOf: the lock file is named after the path as typed.
LockOfTyped(t) ==
    Path(data_dir \o call[t].file_path.segs, Append(call[t].file_path.name, "lock"))

\* Mutant of LockOf: one lock file for the whole data directory.
LockOfStore(t) == Path(data_dir, <<"lock">>)

\* lock_path = str(full_path) + '.lock'
LockOf(t) == lock_path(full_path(t))

\* Mutant of WriteOpenLock: the temporary file is created before the lock
\* is waited for.
WriteOpenLockWithTemp(t) ==
    /\ fpc[t] = "queued"
    /\ fs' = Put(IF exists(LockOf(t)) THEN fs ELSE Put(fs, LockOf(t), <<>>), tmp(t), <<>>)
    /\ fpc' = [fpc EXCEPT ![t] = "opened"]
    /\ UNCHANGED <<dirs, flock, clock, call, reply, calls, src, asked, last_locked,
                   made, relay>>
    /\ Touches(t)

\* portalocker.Lock opens the lock file, which creates it when missing.
WriteOpenLock(t) ==
    /\ fpc[t] = "queued"
    /\ fs' = IF exists(LockOf(t)) THEN fs ELSE Put(fs, LockOf(t), <<>>)
    /\ fpc' = [fpc EXCEPT ![t] = "opened"]
    /\ UNCHANGED <<dirs, flock, clock, call, reply, calls, src, asked, last_locked,
                   made, relay>>
    /\ Touches(t)

\* The exclusive lock on the lock file is free: the call takes it.
WriteAcquire(t) ==
    /\ fpc[t] = "opened"
    /\ \A u \in Threads : flock[u] # LockOf(t)
    /\ flock' = [flock EXCEPT ![t] = LockOf(t)]
    /\ fpc' = [fpc EXCEPT ![t] = "locked"]
    /\ last_locked' = Put(last_locked, full_path(t), [data |-> data(t), replaced |-> FALSE])
    /\ UNCHANGED <<fs, dirs, clock, call, reply, calls, touched, src, asked, made,
                   relay>>

\* Mutant of WriteLockTimeout: the timeout is answered as a client error.
WriteLockTimeoutAs400(t) ==
    /\ fpc[t] = "opened"
    /\ \E u \in Threads : flock[u] = LockOf(t)
    /\ fpc' = [fpc EXCEPT ![t] = "done"]
    /\ reply' = [reply EXCEPT ![t] =
          HTTPException(400, "Failed to write file: LockException")]
    /\ UNCHANGED <<fs, dirs, flock, clock, call, calls, touched, src, asked,
                   last_locked, made, relay>>

\* Another call held the lock for the 10 seconds of timeout=10:
\* LockException, answered 500.
WriteLockTimeout(t) ==
    /\ fpc[t] = "opened"
    /\ \E u \in Threads : flock[u] = LockOf(t)
    /\ fpc' = [fpc EXCEPT ![t] = "done"]
    /\ reply' = [reply EXCEPT ![t] =
          HTTPException(500, "Failed to write file: LockException")]
    /\ UNCHANGED <<fs, dirs, flock, clock, call, calls, touched, src, asked,
                   last_locked, made, relay>>

\* if os.path.exists(full_path): copy its bytes to the backup named with
\* the current timestamp.
WriteBackup(t) ==
    /\ fpc[t] = "locked"
    /\ IF exists(full_path(t))
       THEN /\ clock' = clock + 1
            /\ fs' = Put(fs, backup_path(full_path(t), TimeStamps[clock + 1]),
                         fs[full_path(t)])
            /\ made' = made \cup {backup_path(full_path(t), TimeStamps[clock + 1])}
            /\ fpc' = [fpc EXCEPT ![t] = "copied"]
       ELSE /\ fpc' = [fpc EXCEPT ![t] = "rotated"]
            /\ UNCHANGED <<fs, clock, made>>
    /\ UNCHANGED <<dirs, flock, call, reply, calls, src, asked, last_locked, relay>>
    /\ Touches(t)

\* Mutant of WriteBackupFail: the exception of the copy is not caught and
\* ends the write.
WriteBackupFailAborts(t) ==
    /\ fpc[t] = "locked"
    /\ exists(full_path(t))
    /\ fpc' = [fpc EXCEPT ![t] = "done"]
    /\ flock' = [flock EXCEPT ![t] = None]
    /\ reply' = [reply EXCEPT ![t] = HTTPException(500, "Failed to write file: OSError")]
    /\ UNCHANGED <<fs, dirs, clock, call, calls, touched, src, asked,
                   last_locked, made, relay>>

\* The copy raised (the source vanished after the exists() test, an I/O
\* error): except Exception: pass, and the rotation is skipped with it.
WriteBackupFail(t) ==
    /\ fpc[t] = "locked"
    /\ exists(full_path(t))
    /\ fpc' = [fpc EXCEPT ![t] = "rotated"]
    /\ UNCHANGED <<fs, dirs, flock, clock, call, reply, calls, touched, src, asked,
                   last_locked, made, relay>>

\* candidates: the files of the backup directory whose name starts with
\* "<stem>." and ends with "<suffix>.bak".
candidates(full) ==
    {p \in DOMAIN fs :
        /\ p.dir = backup_base_dir(full)
        /\ startswith(p.name, stem(full.name))
        /\ endswith(p.name, suffix(full.name))}

\* candidates.sort(reverse=True); candidates[30:]
Rotated(full) ==
    {p \in candidates(full) :
        Cardinality({q \in candidates(full) : NameLess(p.name, q.name)}) >= Retention}

WriteRotate(t) ==
    /\ fpc[t] = "copied"
    /\ fs' = Drop(fs, Rotated(full_path(t)))
    /\ fpc' = [fpc EXCEPT ![t] = "rotated"]
    /\ UNCHANGED <<dirs, flock, clock, call, reply, calls, src, asked, last_locked,
                   made, relay>>
    /\ Touches(t)

\* The rotation failed: some old.unlink() raised (except Exception: pass),
\* or a later step of the rotation raised after some were unlinked; at
\* least one backup beyond the thirtieth stays. (A rotation that raises with
\* nothing to delete leaves what WriteRotate leaves.)
WriteRotateFail(t) ==
    /\ fpc[t] = "copied"
    /\ \E kept \in SUBSET Rotated(full_path(t)) \ {{}} :
          fs' = Drop(fs, Rotated(full_path(t)) \ kept)
    /\ fpc' = [fpc EXCEPT ![t] = "rotated"]
    /\ UNCHANGED <<dirs, flock, clock, call, reply, calls, src, asked, last_locked,
                   made, relay>>
    /\ Touches(t)

\* tempfile.mkstemp creates an empty file in the target's directory.
WriteMkstemp(t) ==
    /\ fpc[t] = "rotated"
    /\ fs' = Put(fs, tmp(t), <<>>)
    /\ fpc' = [fpc EXCEPT ![t] = "temp"]
    /\ UNCHANGED <<dirs, flock, clock, call, reply, calls, src, asked, last_locked,
                   made, relay>>
    /\ Touches(t)

\* tmpf.write(data); tmpf.flush(); os.fsync(tmpf.fileno())
WriteTemp(t) ==
    /\ fpc[t] = "temp"
    /\ fs' = Put(fs, tmp(t), data(t))
    /\ fpc' = [fpc EXCEPT ![t] = "written"]
    /\ UNCHANGED <<dirs, flock, clock, call, reply, calls, src, asked, last_locked,
                   made, relay>>
    /\ Touches(t)

\* Writing the temporary file raised (disk full, I/O error).
WriteTempFail(t) ==
    /\ fpc[t] = "temp"
    /\ fpc' = [fpc EXCEPT ![t] = "failed"]
    /\ UNCHANGED <<fs, dirs, flock, clock, call, reply, calls, touched, src, asked,
                   last_locked, made, relay>>

\* os.replace(tmp_path, full_path)
WriteReplace(t) ==
    /\ fpc[t] = "written"
    /\ fs' = Put(Drop(fs, {tmp(t)}), full_path(t), data(t))
    /\ src' = Put(src, full_path(t), call[t].content)
    /\ last_locked' = Put(last_locked, full_path(t), [data |-> data(t), replaced |-> TRUE])
    /\ fpc' = [fpc EXCEPT ![t] = "replaced"]
    /\ UNCHANGED <<dirs, flock, clock, call, reply, calls, asked, made, relay>>
    /\ Touches(t)

\* Mutant of WriteFinish: the finally clause does not remove the temporary
\* file.
WriteFinishKeepTemp(t) ==
    /\ fpc[t] \in {"replaced", "failed"}
    /\ UNCHANGED <<fs, src>>
    /\ flock' = [flock EXCEPT ![t] = None]
    /\ reply' = [reply EXCEPT ![t] =
          IF fpc[t] = "replaced" THEN WriteResponse(call[t])
          ELSE HTTPException(500, "Failed to write file: OSError")]
    /\ fpc' = [fpc EXCEPT ![t] = "done"]
    /\ UNCHANGED <<dirs, clock, call, calls, asked, last_locked, made, relay>>
    /\ Touches(t)

\* finally: remove the temporary file if it is still there; the with block
\* releases the lock; the endpoint answers.
WriteFinish(t) ==
    /\ fpc[t] \in {"replaced", "failed"}
    /\ fs' = IF fpc[t] = "failed" THEN Drop(fs, {tmp(t)}) ELSE fs
    /\ src' = IF fpc[t] = "failed" THEN Drop(src, {tmp(t)}) ELSE src
    /\ flock' = [flock EXCEPT ![t] = None]
    /\ reply' = [reply EXCEPT ![t] =
          IF fpc[t] = "replaced" THEN WriteResponse(call[t])
          ELSE HTTPException(500, "Failed to write file: OSError")]
    /\ fpc' = [fpc EXCEPT ![t] = "done"]
    /\ UNCHANGED <<dirs, clock, call, calls, asked, last_locked, made, relay>>
    /\ Touches(t)

\* read_file up to the open: validation and the exists() test.
ReadBegin(t, req) ==
    /\ req.op = "read"
    /\ Begin(t, req)
    /\ LET full == _validate_file_path(req.file_path) IN
        IF full = None
        THEN /\ fpc' = [fpc EXCEPT ![t] = "done"]
             /\ reply' = [reply EXCEPT ![t] =
                   HTTPException(400, validation_error(req.file_path))]
        ELSE IF ~exists(full)
        THEN /\ fpc' = [fpc EXCEPT ![t] = "done"]
             /\ reply' = [reply EXCEPT ![t] = ReadResponse(req, None)]
        ELSE /\ fpc' = [fpc EXCEPT ![t] = "reading"]
             /\ UNCHANGED reply
    /\ touched' = [touched EXCEPT ![t] = {}]
    /\ UNCHANGED <<fs, dirs, flock, clock, src, asked, last_locked, made, relay>>

\* aiofiles.open(full_path, 'r', encoding='utf-8') and f.read(): the whole
\* file that is at the path when it is opened; FileNotFoundError when it
\* was deleted after the exists() test.
ReadOpen(t) ==
    /\ fpc[t] = "reading"
    /\ reply' = [reply EXCEPT ![t] =
          IF exists(full_path(t))
          THEN ReadResponse(call[t], Str(ReadText(fs[full_path(t)])))
          ELSE HTTPException(500, "Failed to read file: FileNotFoundError")]
    /\ fpc' = [fpc EXCEPT ![t] = "done"]
    /\ UNCHANGED <<fs, dirs, flock, clock, call, calls, touched, src, asked,
                   last_locked, made, relay>>

\* Mutant of DeleteReply: unlink() of a missing file is reported as an error.
DeleteReplyStrict(req, full) ==
    IF exists(full) THEN DeleteResponse(req)
    ELSE HTTPException(500, "Failed to delete file: FileNotFoundError")

\* delete_file returns True whether or not the file existed.
DeleteReply(req, full) == DeleteResponse(req)

\* delete_file: validation, then unlink() when the file exists.
Delete(t, req) ==
    /\ req.op = "delete"
    /\ Begin(t, req)
    /\ LET full == _validate_file_path(req.file_path) IN
        IF full = None
        THEN /\ reply' = [reply EXCEPT ![t] =
                   HTTPException(400, validation_error(req.file_path))]
             /\ UNCHANGED <<fs, src>>
        ELSE /\ fs' = Drop(fs, {full})
             /\ src' = Drop(src, {full})
             /\ reply' = [reply EXCEPT ![t] = DeleteReply(req, full)]
    /\ fpc' = [fpc EXCEPT ![t] = "done"]
    /\ UNCHANGED <<dirs, flock, clock, asked, last_locked, made, relay>>
    /\ touched' = [touched EXCEPT ![t] = Changed]

\* ---------------------------------------------------------- specification
Next ==
    \/ \E r \in Reqs, rd \in RequestInputs : ChatFollow(r, rd)
    \/ \E r \in Reqs, rd \in RequestInputs : ChatLead(r, rd)
    \/ \E r \in Reqs, snap \in UpstreamSnapshots : UpstreamReturn(r, snap)
    \/ \E r \in Reqs : UpstreamHTTPError(r)
    \/ \E r \in Reqs : UpstreamException(r)
    \/ \E r \in Reqs : FollowerResume(r)
    \/ \E r \in Reqs : FollowerTimeout(r)
    \/ \E t \in cleanup_tasks : Cleanup(t)
    \/ \E r \in Reqs, rd \in RequestInputs : LastHit(r, rd)
    \/ \E r \in Reqs, rd \in RequestInputs : LastWait(r, rd)
    \/ \E r \in Reqs, rd \in RequestInputs : LastMiss(r, rd)
    \/ \E r \in Reqs : LastResume(r)
    \/ \E r \in Reqs : LastTimeout(r)
    \/ \E r \in Reqs, rd \in RequestInputs : ChatReject(r, rd)
    \/ \E r \in Reqs, req \in WebhookInputs : WebhookReject(r, req)
    \/ \E r \in Reqs, req \in WebhookInputs : WebhookPost(r, req)
    \/ \E r \in Reqs, status_code \in WebhookStatuses : WebhookReturn(r, status_code)
    \/ \E r \in Reqs : WebhookHTTPError(r)
    \/ \E r \in Reqs : WebhookException(r)

Spec == Init /\ [][Next]_vars

\* ------------------------------------------------ file store specifications
RECURSIVE Total(_, _)
Total(f, S) ==
    IF S = {} THEN 0
    ELSE LET x == CHOOSE y \in S : TRUE IN f[x] + Total(f, S \ {x})

\* File operations begun so far.
Started == Total(calls, DOMAIN calls)

InitFiles ==
    /\ RelayInit
    /\ settings = None
    /\ StoreInit

\* Up to MaxOps reads, writes and deletes, MaxActive of them at a time.
NextFiles ==
    \/ Started < MaxOps /\ \E t \in Threads, req \in FileRequests : WriteBegin(t, req)
    \/ \E t \in Threads : WriteOpenLock(t)
    \/ \E t \in Threads : WriteAcquire(t)
    \/ \E t \in Threads : WriteLockTimeout(t)
    \/ \E t \in Threads : WriteBackup(t)
    \/ \E t \in Threads : WriteBackupFail(t)
    \/ \E t \in Threads : WriteRotate(t)
    \/ \E t \in Threads : WriteMkstemp(t)
    \/ \E t \in Threads : WriteTemp(t)
    \/ \E t \in Threads : WriteTempFail(t)
    \/ \E t \in Threads : WriteReplace(t)
    \/ \E t \in Threads : WriteFinish(t)
    \/ Started < MaxOps /\ \E t \in Threads, req \in FileRequests : ReadBegin(t, req)
    \/ \E t \in Threads : ReadOpen(t)
    \/ Started < MaxOps /\ \E t \in Threads, req \in FileRequests : Delete(t, req)

SpecFiles == InitFiles /\ [][NextFiles]_vars

\* How often each write of the backup scenarios is made.
BackupQuota(req) ==
    IF req.file_path.name = <<"a", "b", "txt">> THEN SiblingWrites ELSE 1

\* Writes made one after the other, without failures: each is begun when
\* the one before it has answered.
NextBackups ==
    \/ \E req \in BackupRequests : calls[req] < BackupQuota(req) /\ WriteBegin(1, req)
    \/ WriteOpenLock(1)
    \/ WriteAcquire(1)
    \/ WriteBackup(1)
    \/ WriteRotate(1)
    \/ WriteMkstemp(1)
    \/ WriteTemp(1)
    \/ WriteReplace(1)
    \/ WriteFinish(1)

SpecBackups == InitFiles /\ [][NextBackups]_vars

\* How often each of them is made.
NeighbourQuota(req) ==
    IF req.file_path.name = <<"a", "txt">> THEN OwnWrites ELSE 2

\* Writes made one after the other, without failures.
NextNeighbours ==
    \/ \E req \in NeighbourRequests :
          calls[req] < NeighbourQuota(req) /\ WriteBegin(1, req)
    \/ WriteOpenLock(1)
    \/ WriteAcquire(1)
    \/ WriteBackup(1)
    \/ WriteRotate(1)
    \/ WriteMkstemp(1)
    \/ WriteTemp(1)
    \/ WriteReplace(1)
    \/ WriteFinish(1)

SpecNeighbours == InitFiles /\ [][NextNeighbours]_vars

\* The writes of the scenarios with failing backups: a.txt, with two texts.
FaultRequests ==
    { FileWriteRequest(FilePath(<<>>, <<"a", "txt">>), <<"h">>),
      FileWriteRequest(FilePath(<<>>, <<"a", "txt">>), <<"e'", "CR", "LF">>) }

\* How often each of them is made.
FaultQuota(req) == IF req.content = <<"h">> THEN FaultWrites ELSE 1

\* Writes made one after the other whose backup copy or rotation can fail.
NextFaults ==
    \/ \E req \in FaultRequests : calls[req] < FaultQuota(req) /\ WriteBegin(1, req)
    \/ WriteOpenLock(1)
    \/ WriteAcquire(1)
    \/ WriteBackup(1)
    \/ WriteBackupFail(1)
    \/ WriteRotate(1)
    \/ WriteRotateFail(1)
    \/ WriteMkstemp(1)
    \/ WriteTemp(1)
    \/ WriteReplace(1)
    \/ WriteFinish(1)

SpecFaults == InitFiles /\ [][NextFaults]_vars

\* ------------------------------------------------- registry specification
\* The relay endpoint and the cleanup tasks alone, without allow-list:
\* the requests that create, complete and remove pending entries.
NextRegistry ==
    \/ \E r \in Reqs, rd \in RequestInputs : ChatFollow(r, rd)
    \/ \E r \in Reqs, rd \in RequestInputs : ChatLead(r, rd)
    \/ \E r \in Reqs, snap \in UpstreamSnapshots : UpstreamReturn(r, snap)
    \/ \E r \in Reqs : UpstreamHTTPError(r)
    \/ \E r \in Reqs : UpstreamException(r)
    \/ \E r \in Reqs : FollowerResume(r)
    \/ \E r \in Reqs : FollowerTimeout(r)
    \/ \E t \in cleanup_tasks : Cleanup(t)

SpecRegistry == InitFiles /\ [][NextRegistry]_vars

\* The registry with leaders that can be cancelled. The upstream call of a
\* leader ends (api_client.chat_completion has a timeout), a follower's wait
\* ends (signal or timeout) and a cleanup task runs when its sleep is over.
\* Its requests are two bodies with different keys and its upstream answers
\* a success or an error status.
LiveInputs ==
    { ChatCompletionRequest(<<"u">>, <<"k">>, PayloadMN),
      ChatCompletionRequest(<<" ", "u">>, <<"k", " ">>, PayloadNM) }

LiveSnapshots ==
    { Snapshot(200, <<"choices", "A">>, NoText),
      Snapshot(504, <<"detail", TimeoutDetail>>, NoText) }

NextLive ==
    \/ \E r \in Reqs, rd \in LiveInputs : ChatFollow(r, rd)
    \/ \E r \in Reqs, rd \in LiveInputs : ChatLead(r, rd)
    \/ \E r \in Reqs, snap \in LiveSnapshots : UpstreamReturn(r, snap)
    \/ \E r \in Reqs : UpstreamHTTPError(r)
    \/ \E r \in Reqs : UpstreamException(r)
    \/ \E r \in Reqs : UpstreamCancelled(r)
    \/ \E r \in Reqs : FollowerResume(r)
    \/ \E r \in Reqs : FollowerTimeout(r)
    \/ \E t \in cleanup_tasks : Cleanup(t)

Ends(r) ==
    \/ \E snap \in LiveSnapshots : UpstreamReturn(r, snap)
    \/ UpstreamHTTPError(r)
    \/ UpstreamException(r)
    \/ UpstreamCancelled(r)
    \/ FollowerResume(r)
    \/ FollowerTimeout(r)

Fairness ==
    /\ \A r \in Reqs : WF_vars(Ends(r))
    /\ WF_vars(\E t \in cleanup_tasks : Cleanup(t))

SpecLive == InitFiles /\ [][NextLive]_vars /\ Fairness

\* ------------------------------------------------------------------ claims
Done(r) == pc[r] = "done"

\* The request that created entry e (requests are numbered in arrival order).
Registrant(r, e) ==
    /\ role[r] = "leader"
    /\ holder_of[r] = e
    /\ \A q \in Reqs : (q < r /\ role[q] = "leader") => holder_of[q] # e

\* A follower of entry e whose wait returned with a result.
WokenFollower(s, e) ==
    /\ role[s] = "follower"
    /\ event[s] = e
    /\ outcome[s] = "shared"

\* C1: of the relay requests that share a fingerprint and are in flight
\* together (each arrived before an earlier one of them completed), at most
\* one performs the upstream invocation.
C1_OneUpstreamCallPerConcurrentSet ==
    \A r \in Reqs : \A s \in concurrent[r] :
        ~(role[r] = "leader" /\ role[s] = "leader")

\* C2: the leader that registered a pending entry and every follower that
\* waited on that entry and was woken return the same status code and body,
\* and so do any two such followers.
C2_CoalescedSameResponse ==
    \A r \in Reqs, s \in Reqs :
        /\ (Done(r) /\ Registrant(r, holder_of[r]) /\ WokenFollower(s, holder_of[r]))
              => response[s] = response[r]
        /\ (WokenFollower(r, event[r]) /\ WokenFollower(s, event[r]))
              => response[s] = response[r]

C4_SameErrorSnapshot ==
    \A r \in Reqs, s \in Reqs :
        (/\ Registrant(r, holder_of[r])
         /\ outcome[r] \in {"http_error", "exception"}
         /\ WokenFollower(s, holder_of[r]))
            => response[s] = response[r]

\* An outcome an upstream call produced: relayed by its leader, raised by
\* its leader, or delivered to a follower.
FromUpstream(s) == outcome[s] \in {"relayed", "http_error", "exception", "shared"}

\* C5 (as stated): the response of a follower whose wait timed out differs
\* from every response an upstream call produced.
C5_TimeoutDistinctFromUpstream ==
    \A r \in Reqs, s \in Reqs :
        (outcome[r] = "wait_timeout" /\ FromUpstream(s)) => response[r] # response[s]

\* C5 (amended): a follower whose wait timed out returns status 504, which
\* differs from the status of every failed upstream call (the 502 and 500
\* answers of the leader and the 502 and 500 snapshots delivered to
\* followers) and from every relayed response whose status is not 504.
C5_TimeoutDistinctFromFailure ==
    \A r \in Reqs : outcome[r] = "wait_timeout" =>
        /\ response[r].status_code = 504
        /\ \A s \in Reqs :
              (\/ outcome[s] \in {"http_error", "exception"}
               \/ (outcome[s] = "shared" /\ response[s].json # NoJson
                   /\ response[s].json[1] = "error"))
                  => response[s].status_code # response[r].status_code

\* C5 witness: a follower timed out, and a leader's upstream call failed.
C5_Witness ==
    \E r \in Reqs, s \in Reqs :
        outcome[r] = "wait_timeout" /\ outcome[s] \in {"http_error", "exception"}

\* C6: the step in which a follower's wait times out changes nothing but
\* that follower: the pending map, the events, the cleanup tasks, the slot
\* and every other request stay as they were, the entry it waited on is
\* still in the map with its signal unfired, and a follower woken later
\* still returns a result that a completion stored in the entry it waited on.
C6_TimeoutLeavesRestUnchanged ==
    /\ [][\A r \in Reqs :
            (pc[r] = "wait" /\ outcome[r] = "none" /\ outcome'[r] = "wait_timeout") =>
                /\ UNCHANGED <<chat_pending_map, events, cleanup_tasks,
                               last_chat_completion_entry>>
                /\ \A s \in Reqs \ {r} :
                      /\ pc'[s] = pc[s]
                      /\ event'[s] = event[s]
                      /\ response'[s] = response[s]
                /\ \E k \in DOMAIN chat_pending_map' :
                      /\ chat_pending_map'[k].event = event[r]
                      /\ ~events'[event[r]]]_vars
    /\ [](\A s \in Reqs : outcome[s] = "shared" =>
            \E p \in stored :
                /\ p[1] = event[s]
                /\ response[s].status_code = p[2].status_code
                /\ response[s].json = p[2].json)

\* C6 witness: one follower of an entry timed out and another follower of
\* the same entry was woken afterwards and returned the stored result.
C6_Witness ==
    \E r \in Reqs, s \in Reqs :
        /\ outcome[r] = "wait_timeout"
        /\ outcome[s] = "shared"
        /\ event[s] = event[r]

\* C7: the last-completion slot is empty or holds a record whose status code
\* is below 400, and a handler that ends with a status of 400 or more (a
\* relayed error status, a failed upstream call, a follower of either)
\* leaves the slot as it was.
C7_SlotHoldsOnlySuccess ==
    /\ [](last_chat_completion_entry # None =>
            last_chat_completion_entry.res.status_code < 400)
    /\ [][\A r \in Reqs :
            (pc[r] \in {"upstream", "wait"} /\ pc'[r] = "done"
             /\ response'[r].status_code >= 400)
                => UNCHANGED last_chat_completion_entry]_vars

\* C7 witness: the slot holds a successful record and a later upstream
\* exchange ended with a status of 400 or more.
C7_Witness ==
    /\ last_chat_completion_entry # None
    /\ \E r \in Reqs :
          /\ outcome[r] \in {"relayed", "http_error", "exception"}
          /\ response[r].status_code >= 400
          /\ last_chat_completion_entry.res.x < xcount

\* C8: whenever the slot is filled it holds the record of the most recently
\* completed upstream exchange with status below 400.
C8_SlotHoldsLatestSuccess ==
    last_chat_completion_entry # None => last_chat_completion_entry.res.x = last_ok

C10_FingerprintInjective ==
    \A r \in Reqs, s \in Reqs :
        (request_data[r] # None /\ request_data[s] # None) =>
            ((KeyOf(request_data[r]) = KeyOf(request_data[s]))
             <=> /\ strip(request_data[r].base_url) = strip(request_data[s].base_url)
                 /\ strip(request_data[r].api_key) = strip(request_data[s].api_key)
                 /\ _canonicalize_payload(request_data[r].payload)
                      = _canonicalize_payload(request_data[s].payload))

\* C11: a relay request whose base_url fails the comparison against the
\* configured baseUrl, and a webhook relay whose url fails the comparison
\* against the configured webhookUrl, is answered 403 without registering
\* or waiting on a pending entry and without an upstream or webhook call,
\* and the step that refuses it leaves the pending map, the events, the
\* cleanup tasks, the last-completion slot and every other request as they
\* were.
C11_MismatchRefusedUntouched ==
    /\ [](\A r \in Reqs :
            /\ (/\ role[r] \in {"leader", "follower", "refused"}
                /\ request_data[r] # None
                /\ _load_settings_base_url # None
                /\ _normalize_base_url(request_data[r].base_url)
                      # _normalize_base_url(_load_settings_base_url))
                  => /\ role[r] = "refused"
                     /\ response[r] = HTTPException(403, "Security error: Base URL mismatch")
                     /\ holder_of[r] = 0
                     /\ event[r] = 0
            /\ (/\ webhook_request[r] # None
                /\ _load_settings_webhook_url # None
                /\ _normalize_url(webhook_request[r].url)
                      # _normalize_url(_load_settings_webhook_url))
                  => /\ role[r] = "refused"
                     /\ response[r] = HTTPException(403, "Security error: Webhook URL mismatch"))
    /\ [][\A r \in Reqs :
            (outcome[r] = "none" /\ outcome'[r] = "forbidden") =>
                /\ UNCHANGED <<chat_pending_map, events, cleanup_tasks,
                               last_chat_completion_entry, stored, xcount>>
                /\ \A s \in Reqs \ {r} : pc'[s] = pc[s] /\ role'[s] = role[s]]_vars

\* C11 witness: after an upstream call filled the slot, a relay request and
\* a webhook relay were both refused.
C11_Witness ==
    /\ last_chat_completion_entry # None
    /\ \E r \in Reqs, s \in Reqs :
          /\ outcome[r] = "forbidden" /\ request_data[r] # None
          /\ outcome[s] = "forbidden" /\ webhook_request[s] # None

\* The path a file operation in progress works on exists and holds what
\* the write that put it there was given.
Holds(t) == full_path(t) # None /\ exists(full_path(t)) /\ full_path(t) \in DOMAIN src

\* C12: a read of a path returns exactly the str that the write whose
\* bytes are at the path was given (UTF-8 round trip); violated by the
\* universal-newline translation of the text-mode read.
C12_ReadReturnsWrittenStr ==
    [][\A t \in Threads :
          (fpc[t] = "reading" /\ fpc'[t] = "done" /\ Holds(t))
            => reply'[t] = ReadResponse(call[t], Str(src[full_path(t)]))]_vars

\* The files the requests can name: the resolved paths inside the data
\* directory.
Targets == {_validate_file_path(req.file_path) : req \in DOMAIN calls} \ {None}

\* C13: a target file is replaced whole. Whatever is at a target path is
\* the complete bytes of one write made to that path; its content changes
\* only in the one step in which a write replaces it with all of its bytes
\* (or a delete removes it); a read that finds the file answers the text of
\* the complete bytes of one write.
C13_ReplacedWhole ==
    /\ [](\A P \in Targets : exists(P) => <<P, fs[P]>> \in asked)
    /\ [](\A t \in Threads :
            (call[t] # None /\ call[t].op = "read" /\ fpc[t] = "done"
             /\ reply[t].status_code = 200 /\ reply[t].content # None)
              => \E w \in asked : /\ w[1] = full_path(t)
                                  /\ reply[t].content = Str(ReadText(w[2])))
    /\ [][\A P \in Targets :
            (P \in DOMAIN fs' /\ (P \notin DOMAIN fs \/ fs'[P] # fs[P]))
              => \E t \in Threads : /\ fpc[t] = "written" /\ fpc'[t] = "replaced"
                                    /\ full_path(t) = P /\ fs'[P] = data(t)]_vars

\* C13: a read has found the old file and is about to open it while a
\* write of other bytes to the same path has its temporary file complete.
C13_Witness ==
    \E t \in Threads, u \in Threads :
        /\ fpc[t] = "reading" /\ fpc[u] = "written"
        /\ full_path(t) = full_path(u)
        /\ exists(full_path(u)) /\ fs[full_path(u)] # data(u)
        /\ fs[tmp(u)] = data(u)

\* The call holds the lock: it is between taking it and releasing it.
InLock(t) == fpc[t] \in {"locked", "copied", "rotated", "temp", "written", "replaced", "failed"}

\* C14: writes to one resolved path are serialized. No two calls are in
\* the locked section for the same path at once, and once the last call to
\* take the path's lock has replaced the file, the file holds that call's
\* content until another write takes the lock or a delete removes it.
C14_WritesSerialized ==
    /\ \A t \in Threads, u \in Threads :
          (t # u /\ InLock(t) /\ InLock(u)) => full_path(t) # full_path(u)
    /\ \A P \in DOMAIN last_locked :
          (last_locked[P].replaced /\ exists(P)) => fs[P] = last_locked[P].data

\* C14: a write to a.txt under one name waits for the lock while a write
\* of other content to the same file under its other name holds it.
C14_Witness ==
    \E t \in Threads, u \in Threads :
        /\ InLock(t) /\ fpc[u] = "opened"
        /\ full_path(t) = full_path(u)
        /\ call[t].file_path # call[u].file_path
        /\ data(t) # data(u)

\* The backup generations of a path that are on disk.
Generations(P) == {g \in made : backup_base_dir(P) = g.dir
                                 /\ \E i \in DOMAIN TimeStamps : g = backup_path(P, TimeStamps[i])}
                  \cap DOMAIN fs

\* C15: a write that overwrites an existing path adds exactly one backup
\* generation, which holds the path's content from before the write and is
\* there when the write has finished with its backups; a write to a path
\* that does not exist adds none; a finished write leaves its content at
\* the path. Violated: the generation just made is removed by the rotation
\* when a.b.txt has thirty generations.
C15_OverwriteKeepsPriorContent ==
    [][\A t \in Threads :
          LET P == full_path(t)
              new == backup_path(P, TimeStamps[clock + 1]) IN
          /\ (fpc[t] = "locked" /\ fpc'[t] = "copied")
                => /\ exists(P) /\ new \notin Generations(P)
                   /\ Generations(P)' = Generations(P) \cup {new}
                   /\ fs'[new] = fs[P]
          /\ (fpc[t] = "locked" /\ fpc'[t] = "rotated")
                => ~exists(P) /\ fs' = fs
          /\ (fpc[t] = "copied" /\ fpc'[t] = "rotated")
                => /\ backup_path(P, TimeStamps[clock]) \in Generations(P)'
                   /\ fs'[backup_path(P, TimeStamps[clock])] = fs[P]
          /\ (fpc[t] = "replaced" /\ fpc'[t] = "done") => fs'[P] = data(t)]_vars

\* The successful writes made to a path, when writes are made one after
\* the other and none fails.
WritesTo(P) ==
    Total(calls, {req \in BackupRequests : _validate_file_path(req.file_path) = P})

Min(a, b) == IF a < b THEN a ELSE b

\* C16: after k >= 1 successful writes to a path and no deletes, the path
\* has min(30, k - 1) backup generations, and they are the most recent
\* ones made for it. Violated: after two writes to a.txt it has none
\* when a.b.txt has thirty.
C16_RetainsNewestThirty ==
    (\A t \in Threads : fpc[t] \in {"idle", "done"}) =>
        \A req \in BackupRequests :
            LET P == _validate_file_path(req.file_path)
                all == {g \in made : \E i \in DOMAIN TimeStamps : g = backup_path(P, TimeStamps[i])} IN
            WritesTo(P) >= 1 =>
                /\ Cardinality(Generations(P)) = Min(Retention, WritesTo(P) - 1)
                /\ \A g \in Generations(P), h \in all \ Generations(P) :
                       NameLess(h.name, g.name)

\* The path, resolved against the data directory, lies outside it, or its
\* extension is none of .txt, .json, .jsonl in any letter case.
Invalid(file_path) ==
    \/ suffix_lower(suffix(file_path.name)) \notin {"txt", "json", "jsonl"}
    \/ ~is_relative_to(resolve(data_dir, file_path.segs), data_dir)

\* C17: a read, write or delete of an invalid path is answered 400 at
\* once and has changed no file and no directory.
C17_InvalidPathRejected ==
    \A t \in Threads :
        (call[t] # None /\ Invalid(call[t].file_path))
          => /\ fpc[t] = "done"
             /\ reply[t] = HTTPException(400, validation_error(call[t].file_path))
             /\ touched[t] = {}

\* C17: with a file in the store, a write that names a path outside the
\* data directory and a delete that names a forbidden extension were both
\* rejected.
C17_Witness ==
    \E t \in Threads, u \in Threads :
        /\ \E P \in Targets : exists(P)
        /\ call[t] # None /\ call[t].op = "write" /\ fpc[t] = "done"
        /\ ~is_relative_to(resolve(data_dir, call[t].file_path.segs), data_dir)
        /\ call[u] # None /\ call[u].op = "delete" /\ fpc[u] = "done"
        /\ suffix_lower(suffix(call[u].file_path.name)) = "exe"

\* The write gave up waiting for the lock.
TimedOut(t) ==
    /\ call[t] # None /\ call[t].op = "write" /\ fpc[t] = "done"
    /\ reply[t] = HTTPException(500, "Failed to write file: LockException")

\* C18 as stated: a write that gave up waiting for the lock has changed no
\* file and no directory. Violated: it can have created the lock file and
\* the missing directories before it waited.
C18_TimeoutTouchesNothing ==
    \A t \in Threads : TimedOut(t) => touched[t] = {}

\* C18, amended: a write that gave up waiting for the lock is answered 500
\* and has changed neither the target, nor a backup, nor a temporary file:
\* all it can have created is the lock file and missing directories.
C18_TimeoutLeavesTargetAndBackups ==
    \A t \in Threads : TimedOut(t) =>
        /\ reply[t].status_code = 500
        /\ \A p \in touched[t] : p = lock_path(full_path(t)) \/ p.name = <<>>

\* C18: a write gave up waiting while another call held the lock of the
\* same file, which exists and has a backup.
C18_Witness ==
    \E t \in Threads, u \in Threads :
        /\ TimedOut(t) /\ InLock(u) /\ full_path(u) = full_path(t)
        /\ exists(full_path(t)) /\ Generations(full_path(t)) # {}

\* The write was refused because its content cannot be encoded as UTF-8.
Unencodable(t) ==
    /\ call[t] # None /\ call[t].op = "write" /\ fpc[t] = "done"
    /\ ~Invalid(call[t].file_path) /\ ~CanEncode(call[t].content)

\* C19: a write whose content cannot be encoded as UTF-8 fails before it
\* has changed anything: no file and no directory is created, changed or
\* removed. Violated: the missing parent directory is created first.
C19_UnencodableChangesNothing ==
    \A t \in Threads : Unencodable(t) =>
        /\ reply[t].status_code >= 400
        /\ touched[t] = {}

\* The step is a delete of a valid path made by call t.
Deletes(t) ==
    /\ Free(t) /\ call'[t] # None
    /\ call'[t].op = "delete" /\ ~Invalid(call'[t].file_path)
    /\ calls'[call'[t]] = calls[call'[t]] + 1

\* C20: a delete of a valid path succeeds whether or not the file exists,
\* and leaves the file absent: an existing file is removed and nothing else
\* changes, a missing one leaves the store as it was.
C20_DeleteIdempotent ==
    [][\A t \in Threads : Deletes(t) =>
          LET P == _validate_file_path(call'[t].file_path) IN
          /\ fpc'[t] = "done"
          /\ reply'[t] = [status_code |-> 200, success |-> TRUE,
                          file_path |-> call'[t].file_path]
          /\ P \notin DOMAIN fs'
          /\ fs' = Drop(fs, {P})
          /\ dirs' = dirs
          /\ (P \notin DOMAIN fs => fs' = fs)]_vars

\* C20: a file that a write had put in place is gone, and the same delete,
\* made a second time, found nothing to remove and succeeded.
C20_Witness ==
    \E t \in Threads :
        /\ call[t] # None /\ call[t].op = "delete" /\ fpc[t] = "done"
        /\ calls[call[t]] = 2
        /\ touched[t] = {}
        /\ reply[t].status_code = 200
        /\ full_path(t) \in DOMAIN last_locked
        /\ last_locked[full_path(t)].replaced
        /\ ~exists(full_path(t))

\* The call is a write that has not answered yet.
Writing(t) == call[t] # None /\ call[t].op = "write" /\ fpc[t] \notin {"idle", "done"}

\* The files that belong to a target path: the file, its lock file and the
\* temporary files made for it.
FilesOf(Q) ==
    {Q, lock_path(Q)} \cup {tmp_path(Q, RandomNames[t]) : t \in Threads}

\* C21: writes to different resolved paths are independent. A write that
\* waits for its lock is kept waiting only by a holder of the same path,
\* it gives up only when such a holder exists, and a write changes neither
\* another target nor that target's lock or temporary file.
C21_DifferentPathsIndependent ==
    /\ [](\A t \in Threads, u \in Threads :
            (fpc[t] = "opened" /\ flock[u] = LockOf(t))
              => Writing(u) /\ full_path(u) = full_path(t))
    /\ [](\A t \in Threads :
            (call[t] # None /\ call[t].op = "write" /\ full_path(t) # None)
              => \A Q \in Targets \ {full_path(t)} : touched[t] \cap FilesOf(Q) = {})
    /\ [][\A t \in Threads :
            (fpc[t] = "opened" /\ fpc'[t] = "done")
              => \E u \in Threads \ {t} : InLock(u) /\ full_path(u) = full_path(t)]_vars

\* C21: two writes to different files are both inside their locked
\* sections, each having put its temporary file in place.
C21_Witness ==
    \E t \in Threads, u \in Threads :
        /\ fpc[t] = "written" /\ fpc[u] = "written"
        /\ full_path(t) # full_path(u)

\* The step is the arrival of a read of a valid path, made by call t.
Reads(t) ==
    /\ Free(t) /\ call'[t] # None
    /\ call'[t].op = "read" /\ ~Invalid(call'[t].file_path)
    /\ calls'[call'[t]] = calls[call'[t]] + 1

\* C22: a read of a valid path at which no file exists answers at once
\* with success and content null, not with an error, and changes no file
\* and no directory.
C22_AbsentReadsNull ==
    [][\A t \in Threads :
          (Reads(t) /\ _validate_file_path(call'[t].file_path) \notin DOMAIN fs)
            => /\ fpc'[t] = "done"
               /\ reply'[t] = [status_code |-> 200, success |-> TRUE, content |-> None,
                               file_path |-> call'[t].file_path]
               /\ fs' = fs /\ dirs' = dirs
               /\ touched'[t] = {}]_vars

\* C22: a read of a missing file answered null while another file is in
\* the store.
C22_Witness ==
    \E t \in Threads :
        /\ call[t] # None /\ call[t].op = "read" /\ fpc[t] = "done"
        /\ reply[t].status_code = 200 /\ reply[t].content = None
        /\ ~exists(full_path(t))
        /\ \E Q \in Targets \ {full_path(t)} : exists(Q)

\* C23: a pending entry is completed exactly once. No entry has its result
\* stored by two completions, and once an entry's signal has fired its
\* result stays the same for as long as the entry is in the map. Violated:
\* a request that arrives after the signal fired and before the cleanup
\* becomes a leader on the same entry and stores its own result in it.
C23_EntryCompletedOnce ==
    /\ [](\A p \in stored, q \in stored : p[1] = q[1] => p = q)
    /\ [][\A key \in DOMAIN chat_pending_map :
            (/\ events[chat_pending_map[key].event]
             /\ key \in DOMAIN chat_pending_map'
             /\ chat_pending_map'[key].event = chat_pending_map[key].event)
              => chat_pending_map'[key].result = chat_pending_map[key].result]_vars

\* C24: an entry leaves the map only in the step of a cleanup task that
\* carries the entry's fingerprint and creation timestamp, that a completion
\* of that very entry created, and only when the entry's signal is set; a
\* cleanup task whose timestamp differs from the present entry's leaves the
\* map as it is.
C24_CleanupRemovesOnlyItsEntry ==
    /\ [](\A t \in cleanup_tasks :
            \E p \in stored : p[1] = t.created_at /\ p[2].x = t.x)
    /\ [][\A key \in DOMAIN chat_pending_map :
            (key \notin DOMAIN chat_pending_map'
             \/ chat_pending_map'[key].created_at # chat_pending_map[key].created_at)
              => /\ key \notin DOMAIN chat_pending_map'
                 /\ events[chat_pending_map[key].event]
                 /\ \E t \in cleanup_tasks \ cleanup_tasks' :
                       /\ t.key = key
                       /\ t.created_at = chat_pending_map[key].created_at]_vars

\* C24: a cleanup task of an entry that was already removed is still
\* sleeping while a newer entry of the same fingerprint, with its signal
\* set, is in the map.
C24_Witness ==
    \E t \in cleanup_tasks :
        /\ t.key \in DOMAIN chat_pending_map
        /\ chat_pending_map[t.key].created_at # t.created_at
        /\ events[chat_pending_map[t.key].event]

\* C25: while a request is between its registration and its completion,
\* the map holds an entry for its fingerprint, that entry is the one the
\* request registered, and the entry the request completes is that one.
\* Violated: a request that took over a completed entry as its holder
\* loses it to the cleanup the first completion scheduled, and then
\* completes whatever entry a later request registered.
C25_EntryStaysWhileCallInFlight ==
    /\ [](\A r \in Reqs :
            pc[r] = "upstream" =>
                /\ KeyOf(request_data[r]) \in DOMAIN chat_pending_map
                /\ chat_pending_map[KeyOf(request_data[r])].event = holder_of[r])
    /\ [][\A r \in Reqs :
            (pc[r] = "upstream" /\ pc'[r] = "done")
              => \E p \in stored' \ stored : p[1] = holder_of[r]]_vars

Events == 1..NReq

Created(e) == e <= Len(events)

Unfired(e) == Created(e) /\ ~events[e]

Fired(e) == Created(e) /\ events[e]

\* C27: every registered entry eventually has its signal fired, however the
\* leader's call ends (cancellation included), and an entry with an unfired
\* signal has a leader still performing the call. Violated: a cancelled
\* leader leaves its entry unfired for good.
C27_EveryEntryCompletes ==
    /\ [](\A key \in DOMAIN chat_pending_map :
            ~events[chat_pending_map[key].event]
              => \E r \in Reqs : /\ pc[r] = "upstream"
                                 /\ holder_of[r] = chat_pending_map[key].event)
    /\ \A e \in Events : Unfired(e) ~> Fired(e)

\* No request is waiting or calling upstream and no cleanup task is left.
Quiet ==
    /\ \A r \in Reqs : pc[r] \notin {"upstream", "wait"}
    /\ cleanup_tasks = {}

InMap(e) == \E key \in DOMAIN chat_pending_map : chat_pending_map[key].event = e

Awaiting ==
    \/ \E r \in Reqs : pc[r] \in {"upstream", "wait", "last_wait"}
    \/ cleanup_tasks # {}

LastStep(r) == role'[r] = "last" /\ pc'[r] # pc[r]

\* C31: the last-result lookup has no effect on shared state. No step of
\* its handler, in any branch, creates, completes or removes a pending
\* entry, fires a signal, schedules a cleanup, changes the last-completion
\* slot or performs an upstream exchange, and the handler never reaches the
\* upstream call.
C31_LastLookupChangesNothing ==
    /\ [](\A r \in Reqs : role[r] = "last" => pc[r] \in {"last_wait", "done"})
    /\ [][\A r \in Reqs :
            LastStep(r) => UNCHANGED <<chat_pending_map, events, cleanup_tasks,
                                       last_chat_completion_entry, stored, xcount,
                                       mutations>>]_vars

\* C31: one lookup waited on an in-flight entry and answered with its
\* result, and another lookup was answered from the slot.
C31_Witness ==
    \E r \in Reqs, q \in Reqs :
        /\ role[r] = "last" /\ outcome[r] = "waited"
        /\ role[q] = "last" /\ outcome[q] = "hit"

\* The write_file call of t has returned and had a valid path.
Returned(t) ==
    /\ call[t] # None /\ call[t].op = "write" /\ fpc[t] = "done"
    /\ full_path(t) # None

FaultTarget == Path(data_dir, <<"a", "txt">>)

WriteDone(t) == call[t] # None /\ call[t].op = "write" /\ fpc[t] = "done"

bool(val) ==
    CASE val.t = "bool" -> val.b
      [] val.t = "int" -> val.n # 0
      [] OTHER -> FALSE

\* Mutant of _load_enable_incoming_webhook_flag: any truthy value enables.
_load_enable_incoming_webhook_flag_truthy ==
    IF settings = None THEN FALSE
    ELSE IF settings = Unreadable THEN FALSE
    ELSE LET val == IF "enableIncomingWebhook" \in DOMAIN settings
                    THEN settings.enableIncomingWebhook
                    ELSE JSONNull
         IN  bool(val)

\* _load_enable_incoming_webhook_flag(): False when settings.json is
\* missing or reading it raises; otherwise whether the value of
\* enableIncomingWebhook (None when the key is absent) is the object True.
_load_enable_incoming_webhook_flag ==
    IF settings = None THEN FALSE
    ELSE IF settings = Unreadable THEN FALSE
    ELSE LET val == IF "enableIncomingWebhook" \in DOMAIN settings
                    THEN settings.enableIncomingWebhook
                    ELSE JSONNull
         IN  bool(val) = TRUE /\ val = JSONTrue

\* q.getlist(k): the values of the key k, in the order of the query.
getlist(q, k) ==
    LET hits == SelectSeq(q, LAMBDA pair : pair[1] = k)
    IN  [i \in 1..Len(hits) |-> hits[i][2]]

\* _query_params_to_json(q): every key with its value, or with the list of
\* its values when it occurs more than once.
_query_params_to_json(q) ==
    [k \in {q[i][1] : i \in DOMAIN q} |->
        IF Len(getlist(q, k)) = 1 THEN getlist(q, k)[1] ELSE getlist(q, k)]

\* Mutant of ring: the oldest records are the ones kept.
ring_oldest(records) ==
    IF Len(records) > MaxRecords
    THEN SubSeq(records, 1, MaxRecords)
    ELSE records

\* records[-30:] when there are more than 30 records.
ring(records) ==
    IF Len(records) > MaxRecords
    THEN SubSeq(records, Len(records) - MaxRecords + 1, Len(records))
    ELSE records

\* What no incoming webhook handler writes.
beside == <<chat_pending_map, events, last_chat_completion_entry, cleanup_tasks, pc,
            request_data, event, response, role, outcome, hist, chat_pending_lock,
            mutations, webhook_request,
            fs, dirs, flock, fpc, call, reply, calls, touched, src, asked,
            last_locked, made>>

\* POST requests with a JSON body, recorded or waiting to be.
Posts ==
    Cardinality({i \in DOMAIN accepted : accepted[i].data = PostedData})
      + Cardinality({h \in DOMAIN awaiting :
                        awaiting[h] # None /\ awaiting[h].body = PostedData})

\* A request reaches the server.
IncomingArrive(req) ==
    /\ arrived = None
    /\ arrived' = req
    /\ UNCHANGED <<incoming_webhook_counter, incoming_webhook_records, awaiting,
                   answered, accepted, settings, clock, beside>>

\* The counter is incremented, the record appended and the list cut to its
\* last 30; the answer names the record.
Record(received) ==
    LET record == [id |-> incoming_webhook_counter + 1,
                   receivedAt |-> clock + 1,
                   data |-> received]
    IN  /\ incoming_webhook_counter' = incoming_webhook_counter + 1
        /\ clock' = clock + 1
        /\ incoming_webhook_records' = ring(Append(incoming_webhook_records, record))
        /\ accepted' = Append(accepted, record)
        /\ answered' = [answered EXCEPT !["/webhook"] =
              HttpResponse(200,
                           [success |-> TRUE, id |-> record.id,
                            receivedAt |-> record.receivedAt,
                            size |-> Len(incoming_webhook_records')],
                           NoText)]

\* incoming_webhook while the flag is off: 403.
IncomingRefused ==
    /\ arrived # None
    /\ arrived.path = "/webhook"
    /\ ~_load_enable_incoming_webhook_flag
    /\ answered' = [answered EXCEPT !["/webhook"] =
          HTTPException(403, "Incoming Webhook is disabled by settings")]
    /\ arrived' = None
    /\ UNCHANGED <<incoming_webhook_counter, incoming_webhook_records, awaiting,
                   accepted, settings, clock, beside>>

\* incoming_webhook, GET: the query parameters are recorded.
IncomingGet ==
    /\ arrived # None
    /\ arrived.path = "/webhook"
    /\ _load_enable_incoming_webhook_flag
    /\ arrived.method = "GET"
    /\ Record(_query_params_to_json(arrived.query))
    /\ arrived' = None
    /\ UNCHANGED <<awaiting, settings, beside>>

\* incoming_webhook, POST: the handler suspends on request.json().
IncomingPost(h) ==
    /\ arrived # None
    /\ arrived.path = "/webhook"
    /\ _load_enable_incoming_webhook_flag
    /\ arrived.method = "POST"
    /\ awaiting[h] = None
    /\ awaiting' = [awaiting EXCEPT ![h] = arrived]
    /\ arrived' = None
    /\ UNCHANGED <<incoming_webhook_counter, incoming_webhook_records, answered,
                   accepted, settings, clock, beside>>

\* request.json() raises: 400.
IncomingBodyInvalid(h) ==
    /\ awaiting[h] # None
    /\ awaiting[h].body = InvalidJson
    /\ answered' = [answered EXCEPT !["/webhook"] =
          HTTPException(400, "Invalid JSON body")]
    /\ awaiting' = [awaiting EXCEPT ![h] = None]
    /\ UNCHANGED <<incoming_webhook_counter, incoming_webhook_records, arrived,
                   accepted, settings, clock, beside>>

\* request.json() returns the body, which is recorded.
IncomingBodyParsed(h) ==
    /\ awaiting[h] # None
    /\ awaiting[h].body # InvalidJson
    /\ Record(awaiting[h].body)
    /\ awaiting' = [awaiting EXCEPT ![h] = None]
    /\ UNCHANGED <<arrived, settings, beside>>

\* Whether int(raw) if (raw is not None and str(raw).strip()) else None
\* yields an int: not for an absent or blank value, nor when int() raises.
IsInt(raw) == raw # None /\ raw # Blank /\ raw # Junk

\* The last n elements of a sequence (n >= 1).
Tail_n(seq, n) ==
    IF Len(seq) <= n THEN seq ELSE SubSeq(seq, Len(seq) - n + 1, Len(seq))

\* The body list_incoming_webhook answers with.
ListBody(req) ==
    LET enabled == _load_enable_incoming_webhook_flag
        raw == IF IsInt(req.limit) THEN req.limit.int ELSE 30
        limit == IF raw > 30 THEN 30 ELSE IF raw < 1 THEN 1 ELSE raw
        all_recs == incoming_webhook_records
        filtered == IF IsInt(req.sinceId)
                    THEN SelectSeq(all_recs, LAMBDA r : r.id > req.sinceId.int)
                    ELSE all_recs
        records == IF enabled THEN Tail_n(filtered, limit) ELSE <<>>
        size == Len(incoming_webhook_records)
    IN  [enabled |-> enabled,
         size |-> size,
         maxSize |-> 30,
         lastId |-> IF size > 0 THEN JSONNumber(incoming_webhook_records[size].id)
                    ELSE JSONNull,
         lastReceivedAt |-> IF size > 0
                            THEN JSONNumber(incoming_webhook_records[size].receivedAt)
                            ELSE JSONNull,
         records |-> records]

\* list_incoming_webhook
ListIncoming ==
    /\ arrived # None
    /\ arrived.path = "/api/webhook/incoming"
    /\ answered' = [answered EXCEPT !["/api/webhook/incoming"] =
          HttpResponse(200, ListBody(arrived), NoText)]
    /\ arrived' = None
    /\ UNCHANGED <<incoming_webhook_counter, incoming_webhook_records, awaiting,
                   accepted, settings, clock, beside>>

\* settings.json is replaced between two requests.
SettingsSaved(s) ==
    /\ s # settings
    /\ settings' = s
    /\ UNCHANGED <<inbox, clock, beside>>

\* The requests to /webhook.
NotificationRequests == {req \in IncomingRequests : req.path = "/webhook"}

\* Whether one more request of this kind is within the bounds.
Within(req, notifications) ==
    /\ incoming_webhook_counter < notifications
    /\ req = IncomingPostRequest(PostedData) => Posts < MaxPosts

\* settings.json enables the incoming webhook and does not change.
InitIncoming ==
    /\ RelayInit
    /\ settings = SettingsWith(JSONTrue)
    /\ StoreInit

NextIncoming ==
    \/ \E req \in NotificationRequests :
          Within(req, MaxNotifications) /\ IncomingArrive(req)
    \/ IncomingGet
    \/ \E h \in DOMAIN awaiting : IncomingPost(h)
    \/ \E h \in DOMAIN awaiting : IncomingBodyInvalid(h)
    \/ \E h \in DOMAIN awaiting : IncomingBodyParsed(h)

SpecIncoming == InitIncoming /\ [][NextIncoming]_vars

\* settings.json is in any state and changes between the requests.
InitFlag ==
    /\ RelayInit
    /\ settings \in IncomingSettingsFiles
    /\ StoreInit

NextFlag ==
    \/ \E req \in IncomingRequests :
          Within(req, FlagNotifications) /\ IncomingArrive(req)
    \/ IncomingRefused
    \/ IncomingGet
    \/ \E h \in DOMAIN awaiting : IncomingPost(h)
    \/ \E h \in DOMAIN awaiting : IncomingBodyInvalid(h)
    \/ \E h \in DOMAIN awaiting : IncomingBodyParsed(h)
    \/ ListIncoming
    \/ \E s \in IncomingSettingsFiles : SettingsSaved(s)

SpecFlag == InitFlag /\ [][NextFlag]_vars

\* The backups ever created from path P.
MadeFrom(P) == {g \in made : \E i \in DOMAIN TimeStamps : g = backup_path(P, TimeStamps[i])}

\* C35: backup retention is isolated per file. The pruning step of a write
\* to P removes only backup generations created from P. Violated: a write
\* to a.txt removes the backup of a.0.txt.
C35_PruningIsPerFile ==
    [][\A t \in Threads :
          (fpc[t] = "copied" /\ fpc'[t] = "rotated")
            => (DOMAIN fs \ DOMAIN fs') \subseteq MadeFrom(full_path(t))]_vars

\* C36: after any sequence of accepted notifications the record store holds
\* at most 30 records, they are the most recently accepted ones in the order
\* they were accepted, their ids are strictly increasing (hence unique), and
\* the last record's id equals the notification counter.
C36_RecordStoreIsRing ==
    LET recs == incoming_webhook_records
        n == Len(recs)
    IN  /\ n <= 30
        /\ Len(accepted) <= 30 => recs = accepted
        /\ Len(accepted) > 30 =>
              recs = SubSeq(accepted, Len(accepted) - 29, Len(accepted))
        /\ \A i, j \in 1..n : i < j => recs[i].id < recs[j].id
        /\ n > 0 => recs[n].id = incoming_webhook_counter

\* C36 witness: more than 30 notifications were accepted, the two oldest are
\* gone, and the record of the POST request is among the kept ones.
C36_Witness ==
    /\ Len(accepted) = 32
    /\ Len(incoming_webhook_records) = 30
    /\ incoming_webhook_records[1].id = 3
    /\ \E i \in DOMAIN incoming_webhook_records :
          incoming_webhook_records[i].data = PostedData

\* The enableIncomingWebhook key of a readable settings.json is true.
ExactlyTrue ==
    /\ settings # None
    /\ settings # Unreadable
    /\ "enableIncomingWebhook" \in DOMAIN settings
    /\ settings.enableIncomingWebhook = JSONTrue

\* C37: while the flag is not exactly true, a request that arrives at
\* /webhook is answered 403, is not admitted, and leaves the counter and the
\* record store unchanged; a request to the polling endpoint is answered
\* with an empty records list.
C37_DisabledRejects ==
    [][(arrived # None /\ arrived' = None /\ ~ExactlyTrue) =>
          IF arrived.path = "/webhook"
          THEN /\ answered'["/webhook"] # None
               /\ answered'["/webhook"].status_code = 403
               /\ awaiting' = awaiting
               /\ incoming_webhook_counter' = incoming_webhook_counter
               /\ incoming_webhook_records' = incoming_webhook_records
          ELSE /\ answered'["/api/webhook/incoming"] # None
               /\ answered'["/api/webhook/incoming"].json.records = <<>>]_vars

\* C37 witness: records are stored, the key is 1, the last request to
\* /webhook was answered 403 and the last poll got no records although
\* the store is not empty.
C37_Witness ==
    /\ settings = SettingsWith(JSONNumber(1))
    /\ incoming_webhook_records # <<>>
    /\ arrived = None
    /\ answered["/webhook"] # None
    /\ answered["/webhook"].status_code = 403
    /\ answered["/api/webhook/incoming"] # None
    /\ answered["/api/webhook/incoming"].json.enabled = FALSE
    /\ answered["/api/webhook/incoming"].json.size > 0
    /\ answered["/api/webhook/incoming"].json.records = <<>>
====
